---- MODULE Spec2Model ----
(***************************************************************************)
(* State-machine model of the event reconciliation layer and the generic   *)
(* Collector of zelfbut.js (a discord.js v11 fork).                        *)
(*                                                                         *)
(*   Spec       Collector (structures/Collector) driven by events, stop()  *)
(*              calls, the client's timers and client.destroy()            *)
(*   SpecNext   the same with a promise read from Collector.next           *)
(*   SpecEmoji  GuildEmojisUpdateAction.handle on a guild's emoji cache    *)
(*   SpecEmojiRaw  the same with payload entries that lack their id        *)
(*   SpecMsg    GenericAction.getPayload / getMessage on a message store   *)
(*   SpecPayload  GenericAction.getPayload for any entity class            *)
(*   SpecTimers the timeouts and intervals of a Client or WebhookClient    *)
(*   SpecInvalid  a Collector constructed with a negative duration         *)
(*   SpecLive   a Collector with a time option, with a fair runtime        *)
(*   SpecPings  Client._pong and Client.pings                              *)
(*   SpecSweep  Client.sweepMessages on the channels' message caches       *)
(*   SpecTyping Client.startTyping / stopTyping and the typing intervals   *)
(*   SpecReactions  Message._addReaction / _removeReaction                 *)
(*   SpecBitField   BitField.freeze / add / remove                         *)
(*   SpecPatch  Message.patch and the edit history of a message            *)
(***************************************************************************)
EXTENDS Integers, Sequences, FiniteSets, TLC

\* ------------------------------------------------------------------ bounds

\* number of events delivered to Collector.listener in one behaviour
MaxEvents == 2
\* last instant of the millisecond clock
MaxTime == 3
\* timer handles user code asks a client for in one behaviour
MaxHandles == 3
\* heartbeat acknowledgements in one behaviour
MaxPongs == 4
\* calls of sweepMessages in one behaviour
MaxSweeps == 2
\* BitField instances alive in one behaviour
MaxFields == 2
\* calls of Message.patch on one message
MaxPatches == 2

\* ------------------------------------------------------------- value sets

\* null / undefined handle of a timer (JavaScript falsy)
Null == 0
\* stop() called without argument
Undefined == "undefined"
\* postCheck() returned a falsy value
NoReason == "none"
\* an identifier the payload does not carry
NoId == "undefined"

Keys == {"k1", "k2"}
Values == {"v1", "v2"}
\* options {time, idle}; 0 stands for an absent option: no timer, time only,
\* idle only, idle before time, both at once, time before idle
Opt(time, idle) == [time |-> time, idle |-> idle]
OptionSets ==
  {Opt(0, 0), Opt(2, 0), Opt(0, 2), Opt(2, 1), Opt(2, 2), Opt(1, 2)}

\* an event as seen by the subclass hooks: handle() yields {key, value}
\* when handled, the user predicate yields pass, postCheck() yields post
Events ==
  [key : {"k1"}, value : Values, handled : {TRUE}, pass : {TRUE},
   post : {NoReason, "limit"}]
  \cup [key : {"k2"}, value : {"v1"}, handled : {TRUE}, pass : BOOLEAN,
        post : {NoReason, "limit"}]
  \cup [key : {"k1"}, value : {"v1"}, handled : {FALSE}, pass : {TRUE},
        post : {NoReason, "limit"}]

\* ------------------------------------------------------- Collector state

VARIABLES
  options,       \* Collector.options: [time, idle]
  collected,     \* Collector.collected: key -> value
  ended,         \* Collector.ended
  _timeout,      \* Collector._timeout: timer handle or Null
  _idletimeout,  \* Collector._idletimeout: timer handle or Null
  _timeouts,     \* Client._timeouts: handles registered with the client
  timers,        \* pending timers of the runtime: [id, due, reason]
  nextTimer,     \* next handle the runtime's setTimeout returns
  now,           \* the clock, in milliseconds
  emitted,       \* notifications emitted by the Collector, in order
  cleanups,      \* how many times cleanup() has run
  nHandled,      \* events delivered to the listener so far
  lastCollect,   \* instant of the most recent successful collection
  triggered,     \* a terminating trigger has occurred
  firstReason,   \* the reason of the first terminating trigger
  stopCalled,    \* stop() has been called from outside the Collector
  destroyed,     \* client.destroy() has been called
  lastOp,        \* the operation that produced this state
  next,          \* the promise of Collector.next: [state, item, rejection]
  listeners,     \* the listeners of that promise attached to the Collector
  userFirst,     \* the user's 'collect' listener precedes the promise's
  nextRequest,   \* when Collector.next was read: [at, active]
  _intervals,    \* Client._intervals: handles registered with the client
  intervals,     \* pending intervals of the runtime: [id, due, period]
  destroyedAt,   \* the handle counter when destroy() was called, else 0
  lateRuns,      \* handles from before destroy() whose callback ran after
  tracked        \* the handles given out and not yet fired or cancelled
                 \* through the client's method for their kind or destroy()

collectorVars ==
  <<options, collected, ended, _timeout, _idletimeout, _timeouts,
    timers, nextTimer, now, emitted, cleanups, nHandled, lastCollect,
    triggered, firstReason, stopCalled, destroyed, lastOp, next, listeners,
    userFirst, nextRequest, _intervals, intervals, destroyedAt, lateRuns,
    tracked>>

\* GuildEmojisUpdate
VARIABLES
  guild,        \* client.guilds.get(data.guild_id): "uncached", "noEmojis"
                \* (cached without emoji store) or "cached"
  emojis,       \* guild.emojis: the cached emojis in insertion order
  dispatched,   \* sub-actions dispatched by the last GuildEmojisUpdate
  lastPayload,  \* data.emojis of the last GuildEmojisUpdate
  repeat        \* the action before had the same payload and dispatched
                \* nothing ("silent") or something ("changed"); else "no"

emojiVars == <<guild, emojis, dispatched, lastPayload, repeat>>

\* GenericAction.getPayload / getMessage
VARIABLES
  partials,     \* client.options.partials
  messages,     \* channel.messages: id -> Message
  ret,          \* what the last call returned
  lastCall,     \* the arguments of the last call
  nCalls        \* calls made so far; the n-th call builds object n

msgVars == <<partials, messages, ret, lastCall, nCalls>>

\* Client.pings and Client.sweepMessages
VARIABLES
  pings,                 \* client.pings
  latencies,             \* every latency _pong was called with, oldest first
  channels,              \* client.channels: id -> [hasMessages, messages]
  messageCacheLifetime,  \* client.options.messageCacheLifetime
  sweepRet,              \* what the last sweepMessages call returned
  lastSweep,             \* the last call: [lifetime, at, before]
  nSweeps

clientVars ==
  <<pings, latencies, channels, messageCacheLifetime, sweepRet, lastSweep,
    nSweeps>>

\* Client.startTyping / Client.stopTyping
VARIABLES
  _typing,       \* client.user._typing: channel id -> [count, interval]
  typingHist     \* per channel: the calls since it was last not typing
                 \* and the interval handles startTyping created for it

typingVars == <<_typing, typingHist>>

\* Message._addReaction / Message._removeReaction
VARIABLES
  reactions,     \* message.reactions: emoji key -> [count, users, me]
  lastReact      \* the last call, its arguments and the reactions before it

reactionVars == <<reactions, lastReact>>

\* BitField
VARIABLES
  bitfields,     \* the BitField instances made so far: [bitfield, frozen]
  bitRet,        \* what the last call returned or threw
  lastBit        \* the last call, its arguments and the instances before it

bitVars == <<bitfields, bitRet, lastBit>>

\* Message.patch
VARIABLES
  patched,       \* the fields of one message and its _edits
  lastPatch      \* the data of the last patch and the message before it

patchVars == <<patched, lastPatch>>

\* the structures of a message
structVars == <<reactionVars, bitVars, patchVars>>

\* the state of the structures that stand by themselves
utilVars == <<typingVars, structVars>>

\* what the Collector's steps leave alone
notCollectorVars == <<emojiVars, msgVars, clientVars, utilVars>>
\* what the emoji synchronisation leaves alone
notEmojiVars == <<collectorVars, msgVars, clientVars, utilVars>>
\* what the message resolution leaves alone
notMsgVars == <<collectorVars, emojiVars, clientVars, utilVars>>
\* what the client's housekeeping leaves alone
notClientVars == <<collectorVars, emojiVars, msgVars, utilVars>>

NoneTracked == [timeouts |-> {}, intervals |-> {}]

\* the mutable part of Collector and Client, as one value the handlers
\* transform step by step
Cur ==
  [collected |-> collected, ended |-> ended, _timeout |-> _timeout,
   _idletimeout |-> _idletimeout, _timeouts |-> _timeouts, timers |-> timers,
   nextTimer |-> nextTimer, emitted |-> emitted, cleanups |-> cleanups,
   next |-> next, listeners |-> listeners, userFirst |-> userFirst,
   _intervals |-> _intervals, intervals |-> intervals]

Install(s) ==
  /\ collected' = s.collected
  /\ ended' = s.ended
  /\ _timeout' = s._timeout
  /\ _idletimeout' = s._idletimeout
  /\ _timeouts' = s._timeouts
  /\ timers' = s.timers
  /\ nextTimer' = s.nextTimer
  /\ emitted' = s.emitted
  /\ cleanups' = s.cleanups
  /\ next' = s.next
  /\ listeners' = s.listeners
  /\ userFirst' = s.userFirst
  /\ _intervals' = s._intervals
  /\ intervals' = s.intervals

EmptyMap == [k \in {} |-> "v1"]

\* a set() that keeps the value a key already has
MapSetKeepsFirst(m, k, v) ==
  [x \in DOMAIN m \cup {k} |-> IF x \in DOMAIN m THEN m[x] ELSE v]

\* Collection.set(key, value)
MapSet(m, k, v) == [x \in DOMAIN m \cup {k} |-> IF x = k THEN v ELSE m[x]]

Notification(name, value, coll, reason) ==
  [name |-> name, value |-> value, collected |-> coll, reason |-> reason]

\* EventEmitter.emit: the notification is delivered to the listeners
emit(s, n) == [s EXCEPT !.emitted = Append(@, n)]

\* the promise of Collector.next
Promise(state, item, rejection) ==
  [state |-> state, item |-> item, rejection |-> rejection]
\* Collector.next has not been read
NoPromise == Promise("none", "", EmptyMap)

\* an onCollect that leaves the promise's 'end' listener attached
nextOnCollectKeepsOnEnd(s, item) ==
  [s EXCEPT !.listeners = @ \ {"collect"},
            !.next = IF @.state = "pending"
                     THEN Promise("resolved", item, EmptyMap) ELSE @]

\* onCollect of Collector.next: both listeners are removed, then
\* resolve(item), which does nothing on a promise that is settled
nextOnCollect(s, item) ==
  [s EXCEPT !.listeners = {},
            !.next = IF @.state = "pending"
                     THEN Promise("resolved", item, EmptyMap) ELSE @]

\* onEnd of Collector.next: both listeners are removed, then
\* reject(this.collected)
nextOnEnd(s) ==
  [s EXCEPT !.listeners = {},
            !.next = IF @.state = "pending"
                     THEN Promise("rejected", "", s.collected) ELSE @]

\* emit(name, ...) calls the listeners that are attached when it starts
deliverEnd(s) == IF "end" \in s.listeners THEN nextOnEnd(s) ELSE s

\* get next(): an ended Collector rejects at once, an active one gets the
\* two listeners, behind or ahead of the user's 'collect' listener
requestNext(s, first) ==
  IF s.ended
  THEN [s EXCEPT !.next = Promise("rejected", "", s.collected)]
  ELSE [s EXCEPT !.next = Promise("pending", "", EmptyMap),
                 !.listeners = {"collect", "end"},
                 !.userFirst = first]

\* the runtime's setTimeout: a delay below 1 ms is raised to 1 ms
NativeDelay(delay) == IF delay < 1 THEN 1 ELSE delay

\* Client.setTimeout(() => this.stop(reason), delay); returns s.nextTimer
setTimeout(s, reason, delay) ==
  [s EXCEPT !.timers = @ \cup {[id |-> s.nextTimer,
                                due |-> now + NativeDelay(delay),
                                reason |-> reason]},
            !._timeouts = @ \cup {s.nextTimer},
            !.nextTimer = @ + 1]

\* a clearTimeout that cancels the timer and keeps its handle
clearTimeoutKeepsHandle(s, timeout) ==
  [s EXCEPT !.timers = {t \in @ : t.id # timeout},
            !.intervals = {i \in @ : i.id # timeout}]

\* Client.clearTimeout(timeout); the runtime's clearTimeout cancels the
\* pending timer with that handle, be it a timeout or an interval
clearTimeout(s, timeout) ==
  [s EXCEPT !.timers = {t \in @ : t.id # timeout},
            !.intervals = {i \in @ : i.id # timeout},
            !._timeouts = @ \ {timeout}]

\* Client.setInterval(fn, delay): the runtime repeats fn every delay ms
setInterval(s, delay) ==
  [s EXCEPT !.intervals = @ \cup {[id |-> s.nextTimer,
                                   due |-> now + NativeDelay(delay),
                                   period |-> NativeDelay(delay)]},
            !._intervals = @ \cup {s.nextTimer},
            !.nextTimer = @ + 1]

\* Client.clearInterval(interval); the runtime's clearInterval cancels the
\* pending timer with that handle, be it an interval or a timeout
clearInterval(s, interval) ==
  [s EXCEPT !.intervals = {i \in @ : i.id # interval},
            !.timers = {t \in @ : t.id # interval},
            !._intervals = @ \ {interval}]

\* the callback Client.setTimeout hands to the runtime, for a user function
\* that leaves the client alone: fn runs, then the handle is dropped
userTimeoutCallback(s, t) ==
  [s EXCEPT !.timers = @ \ {t}, !._timeouts = @ \ {t.id}]

\* the runtime runs the function of a due interval and schedules the next run
intervalCallback(s, i) ==
  [s EXCEPT !.intervals = (@ \ {i}) \cup {[i EXCEPT !.due = now + i.period]}]

\* Collector.cleanup(): the subclass hook, counted
cleanup(s) == [s EXCEPT !.cleanups = @ + 1]

\* a stop() without the early return on ended
stopWithoutGuard(s, reason) ==
  LET r == IF reason = Undefined THEN "user" ELSE reason
      s1 == IF s._timeout # Null
            THEN [clearTimeout(s, s._timeout) EXCEPT !._timeout = Null]
            ELSE s
      s2 == IF s1._idletimeout # Null
            THEN [clearTimeout(s1, s1._idletimeout) EXCEPT !._idletimeout = Null]
            ELSE s1
      s3 == cleanup([s2 EXCEPT !.ended = TRUE])
  IN emit(s3, Notification("end", "", s3.collected, r))

\* a stop() that tests ended only after cleanup() has run
stopGuardAfterCleanup(s, reason) ==
  LET r == IF reason = Undefined THEN "user" ELSE reason
      s3 == cleanup([s EXCEPT !.ended = TRUE])
  IN IF s.ended THEN s3
     ELSE emit([s3 EXCEPT !._timeout = Null, !._idletimeout = Null,
                          !.timers = {}, !._timeouts = {}],
               Notification("end", "", s3.collected, r))

\* a stop() that ignores the reason it is given
stopReasonUser(s, reason) ==
  LET s1 == IF s._timeout # Null
            THEN [clearTimeout(s, s._timeout) EXCEPT !._timeout = Null]
            ELSE s
      s2 == IF s1._idletimeout # Null
            THEN [clearTimeout(s1, s1._idletimeout) EXCEPT !._idletimeout = Null]
            ELSE s1
      s3 == cleanup([s2 EXCEPT !.ended = TRUE])
  IN IF s.ended THEN s
     ELSE emit(s3, Notification("end", "", s3.collected, "user"))

\* a stop() that leaves the idle timer scheduled
stopKeepsIdleTimer(s, reason) ==
  LET r == IF reason = Undefined THEN "user" ELSE reason
      s1 == IF s._timeout # Null
            THEN [clearTimeout(s, s._timeout) EXCEPT !._timeout = Null]
            ELSE s
      s3 == cleanup([s1 EXCEPT !.ended = TRUE])
  IN IF s.ended THEN s
     ELSE emit(s3, Notification("end", "", s3.collected, r))

\* a stop() that sets ended only after 'end' has been delivered
RECURSIVE stopCallEndedAfterEmit(_, _, _)
stopCallEndedAfterEmit(s, reason, endListenerStops) ==
  LET r == IF reason = Undefined THEN "user" ELSE reason
      s1 == IF s._timeout # Null
            THEN [clearTimeout(s, s._timeout) EXCEPT !._timeout = Null]
            ELSE s
      s2 == IF s1._idletimeout # Null
            THEN [clearTimeout(s1, s1._idletimeout) EXCEPT !._idletimeout = Null]
            ELSE s1
      s3 == cleanup(s2)
      s4 == emit(s3, Notification("end", "", s3.collected, r))
      s5 == IF endListenerStops
            THEN stopCallEndedAfterEmit(s4, Undefined, FALSE)
            ELSE s4
  IN IF s.ended THEN s ELSE [s5 EXCEPT !.ended = TRUE]

\* one call of Collector.stop(reason); endListenerStops: an 'end' listener
\* calls stop() again while the notification is being delivered
RECURSIVE stopCall(_, _, _)
stopCall(s, reason, endListenerStops) ==
  LET r == IF reason = Undefined THEN "user" ELSE reason
      s1 == IF s._timeout # Null
            THEN [clearTimeout(s, s._timeout) EXCEPT !._timeout = Null]
            ELSE s
      s2 == IF s1._idletimeout # Null
            THEN [clearTimeout(s1, s1._idletimeout) EXCEPT !._idletimeout = Null]
            ELSE s1
      s3 == cleanup([s2 EXCEPT !.ended = TRUE])
      s4 == deliverEnd(emit(s3, Notification("end", "", s3.collected, r)))
  IN IF s.ended THEN s
     ELSE IF endListenerStops THEN stopCall(s4, Undefined, FALSE)
     ELSE s4

\* Collector.stop(reason), with an 'end' listener that calls stop()
stop(s, reason) == stopCall(s, reason, TRUE)

\* Collector.filter, called with the event arguments and the accumulation:
\* a user filter that accepts k1 whenever the event passes, and k2 only
\* while the accumulation holds no k2 yet
filter(ev, coll) ==
  ev.pass /\ (ev.key = "k2" => "k2" \notin DOMAIN coll)

\* Collector._handle(...args); listenerStops: a 'collect' listener calls
\* stop() while the notification is being delivered
\* a test that collects whatever handle() returns, filter or not
shouldCollectUnfiltered(s, ev) == ev.handled

\* line 140: handle() returned data and the filter accepts the event
shouldCollect(s, ev) == ev.handled /\ filter(ev, s.collected)

\* an idle timer that is left running on a collection
resetIdleKeepsTimer(s, idle) == s

\* a restart of the idle timer that does not clear the one before
resetIdleWithoutClear(s, idle) ==
  IF s._idletimeout # Null
  THEN [setTimeout(s, "idle", idle) EXCEPT !._idletimeout = s.nextTimer]
  ELSE s

\* the idle timer is cleared and restarted
resetIdle(s, idle) ==
  IF s._idletimeout # Null
  THEN [setTimeout(clearTimeout(s, s._idletimeout), "idle", idle)
          EXCEPT !._idletimeout = s.nextTimer]
  ELSE s

\* emit('collect', value): the listeners attached when it starts run in
\* the order they were added, also one that an earlier listener removed
deliverCollect(s, item, listenerStops) ==
  LET user(x) == IF listenerStops THEN stop(x, Undefined) ELSE x
      promise(x) == IF "collect" \in s.listeners
                    THEN nextOnCollect(x, item) ELSE x
  IN IF s.userFirst THEN promise(user(s)) ELSE user(promise(s))

_handle(s, idle, ev, listenerStops) ==
  LET s1 == [s EXCEPT !.collected = MapSet(@, ev.key, ev.value)]
      s2 == emit(s1, Notification("collect", ev.value, s1.collected, ""))
      s3 == deliverCollect(s2, ev.value, listenerStops)
      s4 == emit(s3, Notification("fullCollect", ev.value, s3.collected, ""))
      s5 == resetIdle(s4, idle)
      s6 == IF shouldCollect(s, ev) THEN s5 ELSE s
  IN IF ev.post # NoReason THEN stop(s6, ev.post) ELSE s6

\* a timer callback that drops its handle without stopping the Collector
timeoutCallbackWithoutStop(s, t) ==
  [s EXCEPT !.timers = @ \ {t}, !._timeouts = @ \ {t.id}]

\* the callback Client.setTimeout hands to the runtime, for the due timer t
timeoutCallback(s, t) ==
  LET s1 == [s EXCEPT !.timers = @ \ {t}]
      s2 == stop(s1, t.reason)
  IN [s2 EXCEPT !._timeouts = @ \ {t.id}]

\* a destroy() that leaves the intervals running
destroyKeepsIntervals(s) ==
  [s EXCEPT !.timers = {t \in @ : t.id \notin s._timeouts},
            !._timeouts = {}]

\* Client.destroy() / WebhookClient.destroy(): every registered timeout and
\* interval is cleared and both sets are emptied
destroy(s) ==
  [s EXCEPT !.timers = {t \in @ : t.id \notin s._timeouts},
            !.intervals = {i \in @ : i.id \notin s._intervals},
            !._timeouts = {},
            !._intervals = {}]

\* a constructor that arms the time timer with the idle duration
ConstructedTimeAsIdle(opts) ==
  LET s0 == [collected |-> EmptyMap, ended |-> FALSE, _timeout |-> Null,
             _idletimeout |-> Null, _timeouts |-> {}, timers |-> {},
             nextTimer |-> 1, emitted |-> <<>>, cleanups |-> 0]
      s1 == IF opts.time # 0
            THEN [setTimeout(s0, "time", opts.idle) EXCEPT !._timeout = s0.nextTimer]
            ELSE s0
  IN IF opts.idle # 0
     THEN [setTimeout(s1, "idle", opts.idle) EXCEPT !._idletimeout = s1.nextTimer]
     ELSE s1

\* new Collector(client, filter, options) on a fresh client
Constructed(opts) ==
  LET s0 == [collected |-> EmptyMap, ended |-> FALSE, _timeout |-> Null,
             _idletimeout |-> Null, _timeouts |-> {}, timers |-> {},
             nextTimer |-> 1, emitted |-> <<>>, cleanups |-> 0]
      s1 == IF opts.time # 0
            THEN [setTimeout(s0, "time", opts.time) EXCEPT !._timeout = s0.nextTimer]
            ELSE s0
  IN IF opts.idle # 0
     THEN [setTimeout(s1, "idle", opts.idle) EXCEPT !._idletimeout = s1.nextTimer]
     ELSE s1

Op(name) == [op |-> name, wasEnded |-> ended]

\* the state new Collector(client, filter, options) leaves behind
CollectorConstructed ==
  /\ now = 0
  /\ collected = Constructed(options).collected
  /\ ended = Constructed(options).ended
  /\ _timeout = Constructed(options)._timeout
  /\ _idletimeout = Constructed(options)._idletimeout
  /\ _timeouts = Constructed(options)._timeouts
  /\ timers = Constructed(options).timers
  /\ nextTimer = Constructed(options).nextTimer
  /\ emitted = Constructed(options).emitted
  /\ cleanups = Constructed(options).cleanups
  /\ nHandled = 0
  /\ lastCollect = 0
  /\ triggered = FALSE
  /\ firstReason = NoReason
  /\ stopCalled = FALSE
  /\ destroyed = FALSE
  /\ lastOp = [op |-> "new", wasEnded |-> FALSE]
  /\ next = NoPromise
  /\ listeners = {}
  /\ userFirst = TRUE
  /\ nextRequest = [at |-> 0, active |-> FALSE]
  /\ _intervals = {}
  /\ intervals = {}
  /\ destroyedAt = 0
  /\ lateRuns = {}
  /\ tracked = NoneTracked

CollectorInit ==
  /\ options \in OptionSets
  /\ CollectorConstructed

\* options with a duration below zero
InvalidOptionSets ==
  {Opt(-1, 0), Opt(0, -1), Opt(-1, -1), Opt(-1, 2), Opt(2, -1)}

\* the event is collected: handle() returns data and the filter accepts it
Collects(ev) == shouldCollect(Cur, ev)

\* the event source invokes Collector.listener
Handle(ev, listenerStops) ==
  /\ nHandled < MaxEvents
  /\ Install(_handle(Cur, options.idle, ev, listenerStops))
  /\ nHandled' = nHandled + 1
  /\ lastCollect' = IF Collects(ev) THEN now ELSE lastCollect
  /\ triggered' = (triggered \/ ev.post # NoReason
                   \/ (listenerStops /\ Collects(ev)))
  /\ firstReason' = IF triggered THEN firstReason
                    ELSE IF listenerStops /\ Collects(ev) THEN "user"
                    ELSE ev.post
  /\ lastOp' = Op("_handle")
  /\ UNCHANGED <<options, now, stopCalled, destroyed, nextRequest,
                 destroyedAt, lateRuns, tracked,
                 notCollectorVars>>

\* unrelated code calls collector.stop(reason)
Stop(reason) ==
  /\ Install(stop(Cur, reason))
  /\ triggered' = TRUE
  /\ firstReason' = IF triggered THEN firstReason
                    ELSE IF reason = Undefined THEN "user" ELSE reason
  /\ stopCalled' = TRUE
  /\ lastOp' = Op("stop")
  /\ UNCHANGED <<options, now, nHandled, lastCollect, destroyed, nextRequest,
                 destroyedAt, lateRuns, tracked,
                 notCollectorVars>>

\* the runtime runs the callback of a timer that is due
TimerFires(t) ==
  /\ t \in timers
  /\ t.due <= now
  /\ Install(timeoutCallback(Cur, t))
  /\ triggered' = TRUE
  /\ firstReason' = IF triggered THEN firstReason ELSE t.reason
  /\ lastOp' = Op("timer")
  /\ UNCHANGED <<options, now, nHandled, lastCollect, stopCalled, destroyed,
                 nextRequest, destroyedAt, lateRuns, tracked,
                 notCollectorVars>>

\* client.destroy()
Destroy ==
  /\ ~destroyed
  /\ Install(destroy(Cur))
  /\ destroyed' = TRUE
  /\ lastOp' = Op("destroy")
  /\ UNCHANGED <<options, now, nHandled, lastCollect, triggered, firstReason,
                 stopCalled, nextRequest, destroyedAt, lateRuns, tracked,
                 notCollectorVars>>

\* one millisecond passes; a timer that is due runs before the clock moves on
Tick ==
  /\ now < MaxTime
  /\ \A t \in timers \cup intervals : t.due > now
  /\ now' = now + 1
  /\ UNCHANGED <<options, collected, ended, _timeout, _idletimeout,
                 _timeouts, timers, nextTimer, emitted, cleanups, nHandled,
                 lastCollect, triggered, firstReason, stopCalled, destroyed,
                 lastOp, next, listeners, userFirst, nextRequest,
                 _intervals, intervals, destroyedAt, lateRuns, tracked,
                 notCollectorVars>>

\* user code reads collector.next; first: its own 'collect' listener was
\* added before that
RequestNext(first) ==
  /\ next.state = "none"
  /\ Install(requestNext(Cur, first))
  /\ nextRequest' = [at |-> Len(emitted), active |-> ~ended]
  /\ lastOp' = Op("next")
  /\ UNCHANGED <<options, now, nHandled, lastCollect, triggered, firstReason,
                 stopCalled, destroyed, destroyedAt, lateRuns, tracked,
                 notCollectorVars>>

\* what the client's own timer operations leave alone
notTimerHistory ==
  <<options, now, nHandled, lastCollect, triggered, firstReason, stopCalled,
    nextRequest, notCollectorVars>>

\* user code calls client.setTimeout(fn, delay)
SetTimeout(delay) ==
  /\ nextTimer <= MaxHandles
  /\ Install(setTimeout(Cur, "fn", delay))
  /\ lastOp' = Op("setTimeout")
  /\ tracked' = [tracked EXCEPT !.timeouts = @ \cup {nextTimer}]
  /\ UNCHANGED <<destroyed, destroyedAt, lateRuns, notTimerHistory>>

\* user code calls client.clearTimeout(handle) with a handle it was given
ClearTimeout(handle) ==
  /\ handle < nextTimer
  /\ Install(clearTimeout(Cur, handle))
  /\ lastOp' = Op("clearTimeout")
  /\ tracked' = [tracked EXCEPT !.timeouts = @ \ {handle}]
  /\ UNCHANGED <<destroyed, destroyedAt, lateRuns, notTimerHistory>>

\* user code calls client.setInterval(fn, delay)
SetInterval(delay) ==
  /\ nextTimer <= MaxHandles
  /\ Install(setInterval(Cur, delay))
  /\ lastOp' = Op("setInterval")
  /\ tracked' = [tracked EXCEPT !.intervals = @ \cup {nextTimer}]
  /\ UNCHANGED <<destroyed, destroyedAt, lateRuns, notTimerHistory>>

\* user code calls client.clearInterval(handle)
ClearInterval(handle) ==
  /\ handle < nextTimer
  /\ Install(clearInterval(Cur, handle))
  /\ lastOp' = Op("clearInterval")
  /\ tracked' = [tracked EXCEPT !.intervals = @ \ {handle}]
  /\ UNCHANGED <<destroyed, destroyedAt, lateRuns, notTimerHistory>>

\* the runtime runs the callback of a due timeout
RunTimeout(t) ==
  /\ t \in timers
  /\ t.due <= now
  /\ Install(userTimeoutCallback(Cur, t))
  /\ lateRuns' = IF destroyed /\ t.id < destroyedAt
                 THEN lateRuns \cup {t.id} ELSE lateRuns
  /\ tracked' = [tracked EXCEPT !.timeouts = @ \ {t.id}]
  /\ lastOp' = Op("timer")
  /\ UNCHANGED <<destroyed, destroyedAt, notTimerHistory>>

\* the runtime runs the function of a due interval
RunInterval(i) ==
  /\ i \in intervals
  /\ i.due <= now
  /\ Install(intervalCallback(Cur, i))
  /\ lateRuns' = IF destroyed /\ i.id < destroyedAt
                 THEN lateRuns \cup {i.id} ELSE lateRuns
  /\ lastOp' = Op("interval")
  /\ UNCHANGED <<destroyed, destroyedAt, tracked, notTimerHistory>>

\* client.destroy(), remembering which handles had been given out
DestroyClient ==
  /\ ~destroyed
  /\ Install(destroy(Cur))
  /\ destroyed' = TRUE
  /\ destroyedAt' = nextTimer
  /\ tracked' = NoneTracked
  /\ lastOp' = Op("destroy")
  /\ UNCHANGED <<lateRuns, notTimerHistory>>

Delays == {1, 2}

TimersNext ==
  \/ \E delay \in Delays : SetTimeout(delay)
  \/ \E handle \in 1..MaxHandles : ClearTimeout(handle)
  \/ \E delay \in Delays : SetInterval(delay)
  \/ \E handle \in 1..MaxHandles : ClearInterval(handle)
  \/ \E t \in timers : RunTimeout(t)
  \/ \E i \in intervals : RunInterval(i)
  \/ DestroyClient
  \/ Tick

CollectorNext ==
  \/ \E ev \in Events, ls \in BOOLEAN : Handle(ev, ls)
  \/ \E reason \in {Undefined, "manual"} : Stop(reason)
  \/ \E t \in timers : TimerFires(t)
  \/ Destroy
  \/ Tick

\* ------------------------------------------ GuildEmojisUpdate: the state

\* longest emoji list of a GUILD_EMOJIS_UPDATE payload
MaxPayload == 2

EmojiIds == {"e1", "e2", "e3"}
EmojiNames == {"n1", "n2"}
\* a raw emoji of the payload, and the fields of a cached emoji
Emojis == [id : EmojiIds, name : EmojiNames]
Payloads == UNION {[1..n -> Emojis] : n \in 0..MaxPayload}
\* payloads in which an entry may lack its id
RawEmojis == Emojis \cup [id : {NoId}, name : EmojiNames]
RawPayloads == UNION {[1..n -> RawEmojis] : n \in 0..MaxPayload}

Ids(seq) == {seq[i].id : i \in DOMAIN seq}
DistinctIds(seq) == \A i, j \in DOMAIN seq : seq[i].id = seq[j].id => i = j
\* no GUILD_EMOJIS_UPDATE has been handled yet
NoPayload == <<[id |-> "none", name |-> "none"]>>

\* Map.has(id) / Map.get(id) on a store kept in insertion order
Has(store, id) == id \in Ids(store)
Get(store, id) == store[CHOOSE i \in DOMAIN store : store[i].id = id]

\* Map.delete(id)
MapDelete(store, id) == LET keep(e) == e.id # id IN SelectSeq(store, keep)

\* mappify(guild.emojis.entries()): a copy of the store
mappify(entries) == entries

Dispatch(kind, emoji) == [kind |-> kind, id |-> emoji.id, name |-> emoji.name]

\* GuildEmoji.equals(other): the observable fields agree
equals(cachedEmoji, emoji) ==
  cachedEmoji.id = emoji.id /\ cachedEmoji.name = emoji.name

\* GuildEmojiUpdate.handle(cachedEmoji, emoji): the cached emoji takes the
\* new fields in place and 'emojiUpdate' is emitted
GuildEmojiUpdate(r, cachedEmoji, emoji) ==
  [r EXCEPT !.emojis = [i \in DOMAIN @ |->
                          IF @[i].id = cachedEmoji.id THEN emoji ELSE @[i]],
            !.log = Append(@, Dispatch("update", emoji))]

\* GuildEmojiCreate.handle(guild, emoji): the emoji is added to the store
\* and 'emojiCreate' is emitted
GuildEmojiCreate(r, emoji) ==
  [r EXCEPT !.emojis = Append(@, emoji),
            !.log = Append(@, Dispatch("create", emoji))]

\* GuildEmojiDelete.handle(emoji): the emoji leaves the store and
\* 'emojiDelete' is emitted
GuildEmojiDelete(r, emoji) ==
  [r EXCEPT !.emojis = MapDelete(@, emoji.id),
            !.log = Append(@, Dispatch("delete", emoji))]

\* a loop body that leaves a cached emoji among the pending deletions
payloadStepKeepsDeletion(r, emoji) ==
  IF Has(r.emojis, emoji.id)
  THEN IF ~equals(Get(r.emojis, emoji.id), emoji)
       THEN GuildEmojiUpdate(r, Get(r.emojis, emoji.id), emoji)
       ELSE r
  ELSE GuildEmojiCreate(r, emoji)

\* a loop body that updates the cached emojis that equal the payload's
payloadStepUpdatesEqual(r, emoji) ==
  IF Has(r.emojis, emoji.id)
  THEN LET r1 == [r EXCEPT !.deletions = MapDelete(@, emoji.id)]
       IN IF equals(Get(r.emojis, emoji.id), emoji)
          THEN GuildEmojiUpdate(r1, Get(r.emojis, emoji.id), emoji)
          ELSE r1
  ELSE GuildEmojiCreate(r, emoji)

\* a loop body that updates every cached emoji the payload lists
payloadStepAlwaysUpdates(r, emoji) ==
  IF Has(r.emojis, emoji.id)
  THEN GuildEmojiUpdate([r EXCEPT !.deletions = MapDelete(@, emoji.id)],
                        Get(r.emojis, emoji.id), emoji)
  ELSE GuildEmojiCreate(r, emoji)

\* the body of the loop over data.emojis, for one raw emoji
payloadStep(r, emoji) ==
  IF Has(r.emojis, emoji.id)
  THEN LET r1 == [r EXCEPT !.deletions = MapDelete(@, emoji.id)]
       IN IF ~equals(Get(r.emojis, emoji.id), emoji)
          THEN GuildEmojiUpdate(r1, Get(r.emojis, emoji.id), emoji)
          ELSE r1
  ELSE GuildEmojiCreate(r, emoji)

RECURSIVE payloadLoop(_, _)
payloadLoop(r, data) ==
  IF data = <<>> THEN r
  ELSE payloadLoop(payloadStep(r, Head(data)), Tail(data))

\* a deletion pass whose dispatches come ahead of the loop's
RECURSIVE deletionLoopAhead(_, _)
deletionLoopAhead(r, deletions) ==
  IF deletions = <<>> THEN r
  ELSE LET r1 == GuildEmojiDelete([r EXCEPT !.log = <<>>], Head(deletions))
       IN deletionLoopAhead([r1 EXCEPT !.log = @ \o r.log], Tail(deletions))

\* the loop over the deletions that are left
RECURSIVE deletionLoop(_, _)
deletionLoop(r, deletions) ==
  IF deletions = <<>> THEN r
  ELSE deletionLoop(GuildEmojiDelete(r, Head(deletions)), Tail(deletions))

\* a handle() that copies the cache only after the loop over the payload
handleEmojisCopiesAfterLoop(store, data) ==
  LET r0 == [emojis |-> store, deletions |-> <<>>, log |-> <<>>]
      r1 == payloadLoop(r0, data)
  IN deletionLoop(r1, mappify(r1.emojis))

\* GuildEmojisUpdateAction.handle(data) on a cached guild with emoji store
handleEmojis(store, data) ==
  LET r0 == [emojis |-> store, deletions |-> mappify(store), log |-> <<>>]
      r1 == payloadLoop(r0, data)
  IN deletionLoop(r1, r1.deletions)

\* the emoji stores a guild can start with: any subset of the ids, each
\* with some name, inserted in the order of the ids
EmojiOrder == <<"e1", "e2", "e3">>
RECURSIVE StoresOver(_)
StoresOver(n) ==
  IF n = 0 THEN {<<>>}
  ELSE StoresOver(n - 1)
       \cup {Append(s, [id |-> EmojiOrder[n], name |-> name]) :
               s \in StoresOver(n - 1), name \in EmojiNames}

EmojiInit ==
  /\ guild \in {"uncached", "noEmojis", "cached"}
  /\ emojis \in (IF guild = "cached" THEN StoresOver(Len(EmojiOrder)) ELSE {<<>>})
  /\ dispatched = <<>>
  /\ lastPayload = NoPayload
  /\ repeat = "no"

\* a handle() that reconciles whatever guild the packet names
handleAnyGuild(g, store, data) == handleEmojis(store, data)

\* GuildEmojisUpdateAction.handle(data): nothing is done for a guild that
\* is not cached or has no emoji store
handle(g, store, data) ==
  IF g # "cached"
  THEN [emojis |-> store, deletions |-> <<>>, log |-> <<>>]
  ELSE handleEmojis(store, data)

\* the GUILD_EMOJIS_UPDATE packet is handled
GuildEmojisUpdate(data) ==
  /\ lastPayload' = data
  /\ LET r == handle(guild, emojis, data)
     IN emojis' = r.emojis /\ dispatched' = r.log
  /\ repeat' = IF data # lastPayload THEN "no"
               ELSE IF dispatched = <<>> THEN "silent" ELSE "changed"
  /\ UNCHANGED guild
  /\ UNCHANGED notEmojiVars

EmojiNext == \E data \in Payloads : GuildEmojisUpdate(data)

EmojiRawNext == \E data \in RawPayloads : GuildEmojisUpdate(data)

\* ------------------------------------ getPayload / getMessage: the state

\* calls of getMessage in one behaviour
MaxCalls == 2

MsgIds == {"m1", "m2"}
\* a null field, an absent result (undefined)
NullField == "null"
Msg(id, content, author, oid) ==
  [id |-> id, content |-> content, author |-> author, oid |-> oid,
   edits |-> 0]
Absent == Msg(NoId, NullField, NullField, -1)

\* a message cached in full, a cached stub, the message object of an event
FullMessage(id) == Msg(id, "hi", "u1", 0)
StubMessage(id) == Msg(id, NullField, NullField, 0)
EventMessage(id) == Msg(id, "hi", "u1", -2)

\* get partial(): typeof this.content !== 'string' || !this.author
partial(m) == m.content = NullField \/ m.author = NullField

\* Message.setup(data) for the data getMessage builds: id only, so that
\* content is data.content || null and author is null
newMessage(data, oid) == Msg(data.id, NullField, NullField, oid)

\* Message.patch(data) for the data getMessage builds, which has none of
\* the keys patch looks for: the version before the call joins _edits
patch(m, data) == [m EXCEPT !.edits = @ + 1]

\* existing._patch: Message defines patch, and no method named _patch
has_patch(existing) == FALSE

\* Collection.get(id) / Collection.set(id, entry) of channel.messages
StoreGet(manager, id) == IF id \in DOMAIN manager THEN manager[id] ELSE Absent
StoreSet(manager, id, entry) ==
  [x \in DOMAIN manager \cup {id} |-> IF x = id THEN entry ELSE manager[x]]

\* a || b on ids
OrId(a, b) == IF a # NoId THEN a ELSE b

\* a getPayload that never stores the stub it builds
getPayloadNeverCaches(opts, data, manager, id, partialType, cache, cls, oid) ==
  LET existing == StoreGet(manager, id)
      entry == IF cls = "Message" THEN newMessage(data, oid) ELSE Absent
  IN IF existing = Absent /\ partialType \in opts
     THEN [ret |-> entry, store |-> manager]
     ELSE [ret |-> existing, store |-> manager]

\* a getPayload that does not look at client.options.partials
getPayloadAnyPartial(opts, data, manager, id, partialType, cache, cls, oid) ==
  LET existing == StoreGet(manager, id)
      entry == IF cls = "Message" THEN newMessage(data, oid) ELSE Absent
  IN IF existing = Absent
     THEN [ret |-> entry,
           store |-> IF cache
                     THEN StoreSet(manager, OrId(id, entry.id), entry)
                     ELSE manager]
     ELSE [ret |-> existing, store |-> manager]

\* a getPayload that builds a stub whenever partials are allowed
getPayloadRebuilds(opts, data, manager, id, partialType, cache, cls, oid) ==
  LET existing == StoreGet(manager, id)
      entry == IF cls = "Message" THEN newMessage(data, oid) ELSE Absent
  IN IF partialType \in opts
     THEN [ret |-> entry,
           store |-> IF cache
                     THEN StoreSet(manager, OrId(id, entry.id), entry)
                     ELSE manager]
     ELSE [ret |-> existing, store |-> manager]

\* a getPayload that stores the stub it builds whatever cache says
getPayloadAlwaysCaches(opts, data, manager, id, partialType, cache, cls, oid) ==
  LET existing == StoreGet(manager, id)
      entry == IF cls = "Message" THEN newMessage(data, oid) ELSE Absent
  IN IF existing = Absent /\ partialType \in opts
     THEN [ret |-> entry, store |-> StoreSet(manager, OrId(id, entry.id), entry)]
     ELSE [ret |-> existing, store |-> manager]

\* GenericAction.getPayload(data, manager, id, partialType, cache, cls);
\* opts is client.options.partials, oid the identity of the object it may
\* build. The inner lookup manager.get(id || data.id) repeats the outer one
\* whenever id is given.
getPayload(opts, data, manager, id, partialType, cache, cls, oid) ==
  LET existing == StoreGet(manager, id)
      inner == StoreGet(manager, OrId(id, data.id))
      entry == IF cls = "Message" THEN newMessage(data, oid) ELSE Absent
  IN IF existing = Absent /\ partialType \in opts
     THEN IF inner # Absent
          THEN IF has_patch(inner) /\ cache
               THEN [ret |-> patch(inner, data),
                     store |-> StoreSet(manager, inner.id, patch(inner, data))]
               ELSE [ret |-> inner, store |-> manager]
          ELSE [ret |-> entry,
                store |-> IF cache
                          THEN StoreSet(manager, OrId(id, entry.id), entry)
                          ELSE manager]
     ELSE [ret |-> existing, store |-> manager]

\* GenericAction.getMessage(data, channel, cache)
getMessage(opts, data, manager, cache, oid) ==
  LET id == OrId(data.message_id, data.id)
  IN IF data.message # Absent
     THEN [ret |-> data.message, store |-> manager]
     ELSE getPayload(opts, [id |-> id], manager, id, "MESSAGE", cache,
                     "Message", oid)

\* the raw events handed to getMessage: the message is named by message_id
\* or by id, and the event may carry the message object itself
MessageData ==
  {d \in [message_id : MsgIds \cup {NoId}, id : MsgIds \cup {NoId},
          message : {Absent} \cup {EventMessage(m) : m \in MsgIds}] :
     /\ OrId(d.message_id, d.id) # NoId
     /\ d.message # Absent => d.message.id = OrId(d.message_id, d.id)}

\* the message stores a channel can start with
MessageStores ==
  UNION {{s \in [ids -> {FullMessage(m) : m \in MsgIds}
                        \cup {StubMessage(m) : m \in MsgIds}] :
            \A m \in ids : s[m].id = m} : ids \in SUBSET MsgIds}

NoCall == [data |-> [message_id |-> NoId, id |-> NoId, message |-> Absent],
           cache |-> FALSE, cached |-> FALSE]

MsgInit ==
  /\ partials \in {{}, {"MESSAGE"}}
  /\ messages \in MessageStores
  /\ ret = Absent
  /\ lastCall = NoCall
  /\ nCalls = 0

\* an action resolves the message an event refers to
GetMessage(data, cache) ==
  /\ nCalls < MaxCalls
  /\ nCalls' = nCalls + 1
  /\ ret' = getMessage(partials, data, messages, cache, nCalls + 1).ret
  /\ messages' = getMessage(partials, data, messages, cache, nCalls + 1).store
  /\ lastCall' = [data |-> data, cache |-> cache,
                  cached |-> OrId(data.message_id, data.id) \in DOMAIN messages]
  /\ UNCHANGED <<partials, notMsgVars>>

MsgNext == \E data \in MessageData, cache \in BOOLEAN : GetMessage(data, cache)

\* the entity classes an action asks getPayload for, and their partial type
Classes == {"Message", "User"}
PartialTypeOf(cls) == IF cls = "Message" THEN "MESSAGE" ELSE "USER"

PayloadInit ==
  /\ partials \in SUBSET {"MESSAGE", "USER"}
  /\ messages \in MessageStores
  /\ ret = Absent
  /\ lastCall = NoCall
  /\ nCalls = 0

\* an action calls getPayload({id}, manager, id, type, cache, cls) itself;
\* messages stands for the manager it hands over
GetPayload(cls, id, cache) ==
  /\ nCalls < MaxCalls
  /\ nCalls' = nCalls + 1
  /\ LET r == getPayload(partials, [id |-> id], messages, id,
                         PartialTypeOf(cls), cache, cls, nCalls + 1)
     IN ret' = r.ret /\ messages' = r.store
  /\ lastCall' = [data |-> [message_id |-> NoId, id |-> id, message |-> Absent],
                  cache |-> cache, cached |-> id \in DOMAIN messages]
  /\ UNCHANGED <<partials, notMsgVars>>

PayloadNext ==
  \E cls \in Classes, id \in MsgIds, cache \in BOOLEAN : GetPayload(cls, id, cache)

\* ------------------------------------------ Client: pings and the sweep

\* Client.pings keeps this many latencies
PingsKept == 3

Latencies == {10, 20, 30}

\* Array.prototype.unshift
unshift(arr, x) == <<x>> \o arr

\* arr.length = n on a longer array
truncate(arr, n) == SubSeq(arr, 1, n)

\* a _pong that appends the latency
_pongAppends(arr, latency) ==
  LET p == Append(arr, latency)
  IN IF Len(p) > PingsKept THEN truncate(p, PingsKept) ELSE p

\* Client._pong(startTime), latency being Date.now() - startTime
_pong(arr, latency) ==
  LET p == unshift(arr, latency)
  IN IF Len(p) > PingsKept THEN truncate(p, PingsKept) ELSE p

PingsInit ==
  /\ pings = <<>>
  /\ latencies = <<>>

\* the gateway acknowledges a heartbeat
Pong(latency) ==
  /\ Len(latencies) < MaxPongs
  /\ pings' = _pong(pings, latency)
  /\ latencies' = Append(latencies, latency)
  /\ UNCHANGED <<channels, messageCacheLifetime, sweepRet, lastSweep, nSweeps,
                 notClientVars>>

PingsNext == \E latency \in Latencies : Pong(latency)

ChannelIds == {"c1", "c2"}
SweepMsgIds == {"m1", "m2"}
\* createdTimestamp, editedTimestamp (null when never edited) and Date.now()
\* in milliseconds
CreatedStamps == {1000, 2000}
EditedStamps == {Null, 2500}
Clock == {3000, 3500}
SweepMessage == [createdTimestamp : CreatedStamps, editedTimestamp : EditedStamps]
NoMessages == [m \in {} |-> 0]
MessageCaches ==
  UNION {[d -> SweepMessage] : d \in SUBSET SweepMsgIds}
\* a text-based channel has a message cache, any other channel has none
Channel ==
  [hasMessages : {TRUE}, messages : MessageCaches]
    \cup [hasMessages : {FALSE}, messages : {NoMessages}]

\* the lifetime argument: omitted, or a number of seconds
Lifetimes ==
  [omitted : {TRUE}, value : {0}]
    \cup [omitted : {FALSE}, value : {-1, 0, 1, 2}]
\* the messageCacheLifetime option, a number of seconds
LifetimeOptions == {-1, 0, 1, 2}

\* lifetime || this.options.messageCacheLifetime
lifetimeOrOption(lifetime, option) ==
  IF lifetime.omitted \/ lifetime.value = 0 THEN option ELSE lifetime.value

\* message.editedTimestamp || message.createdTimestamp
stamp(message) ==
  IF message.editedTimestamp # Null
  THEN message.editedTimestamp ELSE message.createdTimestamp

\* a test of age that looks at the creation time only
staleByCreation(message, at, lifetimeMs) ==
  at - message.createdTimestamp > lifetimeMs

\* the predicate sweepMessages hands to Collection.sweep
stale(message, at, lifetimeMs) == at - stamp(message) > lifetimeMs

\* Collection.sweep(fn) with fn the test of age: the entries that pass are
\* deleted and counted
sweep(coll, at, lifetimeMs) ==
  LET gone == {k \in DOMAIN coll : stale(coll[k], at, lifetimeMs)}
  IN [store |-> [k \in DOMAIN coll \ gone |-> coll[k]],
      removed |-> Cardinality(gone)]

RECURSIVE sweptOf(_, _, _, _)
\* the sum the loop over client.channels builds up
sweptOf(chs, ids, at, lifetimeMs) ==
  IF ids = {} THEN 0
  ELSE LET c == CHOOSE c \in ids : TRUE
       IN (IF chs[c].hasMessages
           THEN sweep(chs[c].messages, at, lifetimeMs).removed ELSE 0)
          + sweptOf(chs, ids \ {c}, at, lifetimeMs)

\* a sweepMessages that takes the option for an omitted argument only
sweepMessagesDefaultArgument(chs, option, lifetime, at) ==
  LET l == IF lifetime.omitted THEN option ELSE lifetime.value
      lifetimeMs == l * 1000
  IN IF l <= 0
     THEN [channels |-> chs, ret |-> -1]
     ELSE [channels |->
             [c \in DOMAIN chs |->
                IF chs[c].hasMessages
                THEN [chs[c] EXCEPT
                        !.messages = sweep(@, at, lifetimeMs).store]
                ELSE chs[c]],
           ret |-> sweptOf(chs, DOMAIN chs, at, lifetimeMs)]

\* Client.sweepMessages(lifetime) at Date.now() = at; every lifetime here
\* is a number, so the TypeError of line 381 is not raised
sweepMessages(chs, option, lifetime, at) ==
  LET l == lifetimeOrOption(lifetime, option)
      lifetimeMs == l * 1000
  IN IF l <= 0
     THEN [channels |-> chs, ret |-> -1]
     ELSE [channels |->
             [c \in DOMAIN chs |->
                IF chs[c].hasMessages
                THEN [chs[c] EXCEPT
                        !.messages = sweep(@, at, lifetimeMs).store]
                ELSE chs[c]],
           ret |-> sweptOf(chs, DOMAIN chs, at, lifetimeMs)]

NoSweep == [lifetime |-> [omitted |-> TRUE, value |-> 0], at |-> 0,
            before |-> [c \in {} |-> 0]]

SweepInit ==
  /\ channels \in [ChannelIds -> Channel]
  /\ messageCacheLifetime \in LifetimeOptions
  /\ sweepRet = 0
  /\ lastSweep = NoSweep
  /\ nSweeps = 0

\* user code or the sweep interval calls client.sweepMessages(lifetime)
SweepMessages(lifetime, at) ==
  /\ nSweeps < MaxSweeps
  /\ LET r == sweepMessages(channels, messageCacheLifetime, lifetime, at)
     IN /\ channels' = r.channels
        /\ sweepRet' = r.ret
  /\ lastSweep' = [lifetime |-> lifetime, at |-> at, before |-> channels]
  /\ nSweeps' = nSweeps + 1
  /\ UNCHANGED <<messageCacheLifetime, pings, latencies, notClientVars>>

SweepNext ==
  \E lifetime \in Lifetimes, at \in Clock : SweepMessages(lifetime, at)

\* ------------------------------------------------ Client: the typing

\* startTyping repeats sendTyping every 4000 ms
TypingPeriod == 4000
\* highest count a typing entry is taken to
MaxTypingCount == 3

TypingChannels == {"c1", "c2"}
\* the count argument: omitted, or a number
Counts == [omitted : {TRUE}, value : {0}] \cup [omitted : {FALSE}, value : {0, 1, 2}]

NoTyping == [c \in {} |-> 0]
NoRun == [starts |-> 0, stops |-> 0, ok |-> FALSE, made |-> {}, all |-> {}]

\* count || d
countOr(count, d) == IF count.omitted \/ count.value = 0 THEN d ELSE count.value

\* a startTyping that opens an interval at every call
startTypingAlwaysOpens(s, typing, channel, count) ==
  IF ~count.omitted /\ count.value < 1
  THEN [s |-> s, typing |-> typing, threw |-> TRUE]
  ELSE [s |-> setInterval(s, TypingPeriod),
        typing |-> [c \in DOMAIN typing \cup {channel} |->
                      IF c = channel
                      THEN [count |-> IF c \in DOMAIN typing
                                      THEN countOr(count, typing[c].count + 1)
                                      ELSE countOr(count, 1),
                            interval |-> s.nextTimer]
                      ELSE typing[c]],
        threw |-> FALSE]

\* Client.startTyping(channel, count)
startTyping(s, typing, channel, count) ==
  IF ~count.omitted /\ count.value < 1
  THEN [s |-> s, typing |-> typing, threw |-> TRUE]
  ELSE IF channel \notin DOMAIN typing
       THEN [s |-> setInterval(s, TypingPeriod),
             typing |-> [c \in DOMAIN typing \cup {channel} |->
                           IF c = channel
                           THEN [count |-> countOr(count, 1),
                                 interval |-> s.nextTimer]
                           ELSE typing[c]],
             threw |-> FALSE]
       ELSE [s |-> s,
             typing |-> [typing EXCEPT
                           ![channel].count = countOr(count, @ + 1)],
             threw |-> FALSE]

\* a stopTyping that forgets the entry and leaves its interval running
stopTypingKeepsInterval(s, typing, channel, force) ==
  IF channel \in DOMAIN typing
  THEN IF typing[channel].count - 1 <= 0 \/ force
       THEN [s |-> s,
             typing |-> [c \in DOMAIN typing \ {channel} |-> typing[c]]]
       ELSE [s |-> s, typing |-> [typing EXCEPT ![channel].count = @ - 1]]
  ELSE [s |-> s, typing |-> typing]

\* Client.stopTyping(channel, force)
stopTyping(s, typing, channel, force) ==
  IF channel \in DOMAIN typing
  THEN IF typing[channel].count - 1 <= 0 \/ force
       THEN [s |-> clearInterval(s, typing[channel].interval),
             typing |-> [c \in DOMAIN typing \ {channel} |-> typing[c]]]
       ELSE [s |-> s, typing |-> [typing EXCEPT ![channel].count = @ - 1]]
  ELSE [s |-> s, typing |-> typing]

TypingInit ==
  /\ _typing = NoTyping
  /\ typingHist = [c \in TypingChannels |-> NoRun]

\* what the typing calls leave alone
notTypingVars ==
  <<options, now, nHandled, lastCollect, triggered, firstReason, stopCalled,
    nextRequest, lateRuns, emojiVars, msgVars, clientVars, structVars>>

\* the handles the call created
NewHandles == nextTimer..(nextTimer' - 1)

\* user code calls client.startTyping(channel, count); a call without
\* count on a channel that is not typing opens a run of plain calls
StartTyping(channel, count) ==
  /\ nextTimer <= MaxHandles
  /\ channel \in DOMAIN _typing => _typing[channel].count < MaxTypingCount
  /\ LET r == startTyping(Cur, _typing, channel, count)
     IN Install(r.s) /\ _typing' = r.typing
  /\ typingHist' =
       [typingHist EXCEPT ![channel] =
          IF channel \notin DOMAIN _typing /\ count.omitted
          THEN [starts |-> 1, stops |-> 0, ok |-> TRUE,
                made |-> NewHandles, all |-> @.all \cup NewHandles]
          ELSE IF @.ok /\ count.omitted /\ @.stops = 0
               THEN [@ EXCEPT !.starts = @ + 1,
                              !.made = @ \cup NewHandles,
                              !.all = @ \cup NewHandles]
               ELSE [NoRun EXCEPT
                       !.all = typingHist[channel].all \cup NewHandles]]
  /\ tracked' = [tracked EXCEPT !.intervals = @ \cup NewHandles]
  /\ lastOp' = Op("startTyping")
  /\ UNCHANGED <<destroyed, destroyedAt, notTypingVars>>

\* user code calls client.stopTyping(channel, force)
StopTyping(channel, force) ==
  /\ LET r == stopTyping(Cur, _typing, channel, force)
     IN Install(r.s) /\ _typing' = r.typing
  /\ typingHist' =
       [typingHist EXCEPT ![channel] =
          IF @.ok /\ ~force /\ @.stops < @.starts
          THEN [@ EXCEPT !.stops = @ + 1]
          ELSE [NoRun EXCEPT !.all = typingHist[channel].all]]
  /\ tracked' = [tracked EXCEPT !.intervals = @ \cap _intervals']
  /\ lastOp' = Op("stopTyping")
  /\ UNCHANGED <<destroyed, destroyedAt, notTypingVars>>

\* client.destroy() on a client that may be typing: it ends every run
DestroyTyping ==
  /\ ~destroyed
  /\ Install(destroy(Cur))
  /\ destroyed' = TRUE
  /\ destroyedAt' = nextTimer
  /\ tracked' = NoneTracked
  /\ typingHist' = [c \in TypingChannels |->
                      [NoRun EXCEPT !.all = typingHist[c].all]]
  /\ lastOp' = Op("destroy")
  /\ UNCHANGED <<_typing, notTypingVars>>

TypingNext ==
  \/ \E channel \in TypingChannels, count \in Counts : StartTyping(channel, count)
  \/ \E channel \in TypingChannels, force \in BOOLEAN : StopTyping(channel, force)
  \/ DestroyTyping

\* ------------------------------------------------- Message: reactions

\* what the structures of a message leave alone
notStructVars == <<collectorVars, emojiVars, msgVars, clientVars, typingVars>>

\* emojis as the gateway names them: a custom emoji has an id, a unicode
\* emoji has none; "a" exists both as a custom and as a unicode emoji
ReactionEmojis ==
  {[name |-> "a", id |-> "e1"], [name |-> "a", id |-> NoId],
   [name |-> "b", id |-> NoId]}
\* client.user.id
ClientUserId == "me"
ReactionUsers == {"u1", "u2", ClientUserId}

\* `${emoji.name}:${emoji.id}` for a custom emoji, emoji.name otherwise
emojiID(emoji) ==
  IF emoji.id # NoId THEN <<emoji.name, ":", emoji.id>> ELSE <<emoji.name>>

\* new MessageReaction(message, emoji, count, me): nobody in users yet
MessageReaction(emoji, count, me) ==
  [count |-> count, users |-> {}, me |-> me]

NoReactions == [k \in {} |-> MessageReaction(0, 0, FALSE)]

\* the reaction of the key, once the key is set
withReaction(rs, key, reaction) ==
  [k \in DOMAIN rs \cup {key} |-> IF k = key THEN reaction ELSE rs[k]]

\* the reactions without the key
withoutReaction(rs, key) == [k \in DOMAIN rs \ {key} |-> rs[k]]

\* Message._addReaction with the test of users.has(user.id) left out
_addReactionCountsAlways(rs, emoji, user) ==
  LET key == emojiID(emoji)
      reaction ==
        IF key \in DOMAIN rs
        THEN [rs[key] EXCEPT !.me = @ \/ user = ClientUserId]
        ELSE MessageReaction(emoji, 0, user = ClientUserId)
  IN withReaction(rs, key,
       [reaction EXCEPT !.users = @ \cup {user}, !.count = @ + 1])

\* Message._addReaction(emoji, user): the reactions afterwards
_addReaction(rs, emoji, user) ==
  LET key == emojiID(emoji)
      reaction ==
        IF key \in DOMAIN rs
        THEN [rs[key] EXCEPT !.me = @ \/ user = ClientUserId]
        ELSE MessageReaction(emoji, 0, user = ClientUserId)
  IN withReaction(rs, key,
       IF user \notin reaction.users
       THEN [reaction EXCEPT !.users = @ \cup {user}, !.count = @ + 1]
       ELSE reaction)

\* Message._removeReaction(emoji, user): the reactions afterwards; without
\* user the whole reaction goes
_removeReaction(rs, emoji, user) ==
  LET key == emojiID(emoji)
  IN IF key \in DOMAIN rs
     THEN IF user = Undefined
          THEN withoutReaction(rs, key)
          ELSE IF user \in rs[key].users
               THEN LET reaction ==
                          [rs[key] EXCEPT
                             !.users = @ \ {user},
                             !.count = @ - 1,
                             !.me = IF user = ClientUserId THEN FALSE ELSE @]
                    IN IF reaction.count <= 0
                       THEN withoutReaction(rs, key)
                       ELSE withReaction(rs, key, reaction)
               ELSE rs
     ELSE rs

Reacted(op, emoji, user, before) ==
  [op |-> op, key |-> emojiID(emoji), user |-> user, before |-> before]

ReactionInit ==
  /\ reactions = NoReactions
  /\ lastReact = [op |-> "none", key |-> <<>>, user |-> Undefined,
                  before |-> NoReactions]

\* the gateway reports that user reacted with emoji
AddReaction(emoji, user) ==
  /\ reactions' = _addReaction(reactions, emoji, user)
  /\ lastReact' = Reacted("_addReaction", emoji, user, reactions)
  /\ UNCHANGED <<notStructVars, bitVars, patchVars>>

\* the gateway reports that the reaction of user, or of everybody, is gone
RemoveReaction(emoji, user) ==
  /\ reactions' = _removeReaction(reactions, emoji, user)
  /\ lastReact' = Reacted("_removeReaction", emoji, user, reactions)
  /\ UNCHANGED <<notStructVars, bitVars, patchVars>>

ReactionNext ==
  \/ \E emoji \in ReactionEmojis, user \in ReactionUsers :
       AddReaction(emoji, user)
  \/ \E emoji \in ReactionEmojis, user \in ReactionUsers \cup {Undefined} :
       RemoveReaction(emoji, user)

\* --------------------------------------------------------------- BitField

\* JavaScript's bitwise operators work on 32-bit two's complement integers:
\* the bit at this position is the sign
Int32Sign == 31
\* the bit positions in use: SUPPRESS_EMBEDS (1 << 2) and the sign bit
BitPositions == {2, Int32Sign}

\* a number as the set of its bits; a non-negative number below 2^32
Number(bits) == [bits |-> bits, negative |-> FALSE]
\* the result of a bitwise operator: negative when the sign bit is set
ToInt32(bits) == [bits |-> bits, negative |-> Int32Sign \in bits]
\* a | b
bitOr(a, b) == ToInt32(a.bits \cup b.bits)
\* a & ~b
bitAndNot(a, b) == ToInt32(a.bits \ b.bits)

\* the numbers user code passes as bits
BitNumbers == {Number(bits) : bits \in SUBSET BitPositions}
\* the arguments of add(...bits) and remove(...bits)
BitArguments == {<<b>> : b \in BitNumbers} \cup (BitNumbers \X BitNumbers)

\* BitField.resolve(bit) for a number: a negative one is a RangeError
resolve(bit) == [threw |-> bit.negative, value |-> bit]

\* the loop of add() and remove(): total |= resolve(bit) for every bit
RECURSIVE totalOf(_)
totalOf(bits) ==
  IF bits = <<>> THEN Number({})
  ELSE bitOr(totalOf(SubSeq(bits, 1, Len(bits) - 1)),
             resolve(bits[Len(bits)]).value)

Returned(instance) == [threw |-> FALSE, instance |-> instance]
Thrown == [threw |-> TRUE, instance |-> 0]

\* new BitField(bits) appended to the instances; resolve may throw
construct(fields, bits) ==
  IF resolve(bits).threw
  THEN [fields |-> fields, ret |-> Thrown]
  ELSE [fields |-> Append(fields, [bitfield |-> resolve(bits).value,
                                   frozen |-> FALSE]),
        ret |-> Returned(Len(fields) + 1)]

\* BitField.freeze() on instance i
freeze(fields, i) ==
  [fields |-> [fields EXCEPT ![i].frozen = TRUE], ret |-> Returned(i)]

\* BitField.add(...bits) on instance i
add(fields, i, bits) ==
  IF fields[i].frozen
  THEN construct(fields, bitOr(fields[i].bitfield, totalOf(bits)))
  ELSE [fields |-> [fields EXCEPT
                      ![i].bitfield = bitOr(@, totalOf(bits))],
        ret |-> Returned(i)]

\* BitField.remove(...bits) on instance i
remove(fields, i, bits) ==
  IF fields[i].frozen
  THEN construct(fields, bitAndNot(fields[i].bitfield, totalOf(bits)))
  ELSE [fields |-> [fields EXCEPT
                      ![i].bitfield = bitAndNot(@, totalOf(bits))],
        ret |-> Returned(i)]

NoBitCall ==
  [op |-> "none", target |-> 0, total |-> {}, before |-> <<>>]
BitCall(op, i, bits) ==
  [op |-> op, target |-> i, total |-> totalOf(bits).bits,
   before |-> bitfields]

BitInit ==
  /\ bitfields = <<>>
  /\ bitRet = Returned(0)
  /\ lastBit = NoBitCall

\* user code makes a BitField of a number
NewBitField(bits) ==
  /\ Len(bitfields) < MaxFields
  /\ LET r == construct(bitfields, bits)
     IN bitfields' = r.fields /\ bitRet' = r.ret
  /\ lastBit' = BitCall("new", 0, <<bits>>)
  /\ UNCHANGED <<notStructVars, reactionVars, patchVars>>

\* user code freezes instance i
Freeze(i) ==
  /\ LET r == freeze(bitfields, i)
     IN bitfields' = r.fields /\ bitRet' = r.ret
  /\ lastBit' = BitCall("freeze", i, <<>>)
  /\ UNCHANGED <<notStructVars, reactionVars, patchVars>>

\* user code calls add on instance i
Add(i, bits) ==
  /\ bitfields[i].frozen => Len(bitfields) < MaxFields
  /\ LET r == add(bitfields, i, bits)
     IN bitfields' = r.fields /\ bitRet' = r.ret
  /\ lastBit' = BitCall("add", i, bits)
  /\ UNCHANGED <<notStructVars, reactionVars, patchVars>>

\* user code calls remove on instance i
Remove(i, bits) ==
  /\ bitfields[i].frozen => Len(bitfields) < MaxFields
  /\ LET r == remove(bitfields, i, bits)
     IN bitfields' = r.fields /\ bitRet' = r.ret
  /\ lastBit' = BitCall("remove", i, bits)
  /\ UNCHANGED <<notStructVars, reactionVars, patchVars>>

BitNext ==
  \/ \E bits \in BitNumbers : NewBitField(bits)
  \/ \E i \in DOMAIN bitfields : Freeze(i)
  \/ \E i \in DOMAIN bitfields, bits \in BitArguments : Add(i, bits)
  \/ \E i \in DOMAIN bitfields, bits \in BitArguments : Remove(i, bits)

\* ----------------------------------------------------- Message: patch

\* the keys of the update data that patch copies into plain fields
PatchKeys == {"content", "pinned", "tts", "edited_timestamp", "flags"}
\* the keys an update carries: an embed-only update, an edit of the content,
\* a pin, a text-to-speech change, a change of the flags, a full message
PatchKeySets ==
  {{}, {"content", "edited_timestamp"}, {"pinned"}, {"tts"}, {"flags"},
   PatchKeys}
\* timestamps as the gateway writes them
IsoStamps == {"1970-01-01T00:00:00.001Z", "1970-01-01T00:00:00.002Z"}
\* new Date(iso).getTime()
getTime(iso) == IF iso = "1970-01-01T00:00:00.001Z" THEN 1 ELSE 2
\* flags as the gateway writes them: none, SUPPRESS_EMBEDS
FlagNumbers == {Number({}), Number({2})}

\* the update data of MESSAGE_UPDATE; a value counts when its key is there
PatchData ==
  [keys : PatchKeySets, content : {"edited", "again"}, pinned : {TRUE},
   tts : {TRUE}, edited_timestamp : {"1970-01-01T00:00:00.002Z"},
   flags : FlagNumbers]

\* new MessageFlags(bits).freeze()
MessageFlags(bits) == [bitfield |-> resolve(bits).value, frozen |-> TRUE]

\* Util.cloneObject(message): the fields as they are now
cloneObject(m) ==
  [content |-> m.content, pinned |-> m.pinned, tts |-> m.tts,
   editedTimestamp |-> m.editedTimestamp, flags |-> m.flags]

\* a message as setup() leaves it: never edited, no version kept
PatchedMessages ==
  [content : {"first"}, pinned : {FALSE}, tts : {FALSE},
   editedTimestamp : {Null},
   flags : {MessageFlags(bits) : bits \in FlagNumbers}, _edits : {<<>>}]

\* Message.patch(data) with all the fields of the message
patchMessage(m, data) ==
  [content |-> IF "content" \in data.keys THEN data.content ELSE m.content,
   pinned |-> IF "pinned" \in data.keys THEN data.pinned ELSE m.pinned,
   tts |-> IF "tts" \in data.keys THEN data.tts ELSE m.tts,
   editedTimestamp |->
     IF "edited_timestamp" \in data.keys
     THEN getTime(data.edited_timestamp) ELSE m.editedTimestamp,
   flags |->
     MessageFlags(IF "flags" \in data.keys THEN data.flags ELSE Number({})),
   _edits |-> unshift(m._edits, cloneObject(m))]

\* Message.edits: the current version, then the kept ones
edits(m) == unshift(m._edits, cloneObject(m))

NoPatch == [op |-> "none", keys |-> {}, before |-> <<>>]

PatchInit ==
  /\ patched \in PatchedMessages
  /\ lastPatch = NoPatch

\* MESSAGE_UPDATE for the message: Message.patch(data)
Patch(data) ==
  /\ Len(patched._edits) < MaxPatches
  /\ patched' = patchMessage(patched, data)
  /\ lastPatch' = [op |-> "patch", keys |-> data.keys, before |-> patched]
  /\ UNCHANGED <<notStructVars, reactionVars, bitVars>>

PatchNext == \E data \in PatchData : Patch(data)

\* ------------------------------------------------------- specifications

vars == <<collectorVars, emojiVars, msgVars, clientVars, utilVars>>

TypingIdle == TypingInit

ReactionIdle == ReactionInit

BitIdle == BitInit

PatchIdle == patched = 0 /\ lastPatch = NoPatch

StructIdle == ReactionIdle /\ BitIdle /\ PatchIdle

UtilIdle == TypingIdle /\ StructIdle

PingsIdle == pings = <<>> /\ latencies = <<>>

SweepIdle ==
  /\ channels = [c \in {} |-> 0] /\ messageCacheLifetime = 0
  /\ sweepRet = 0 /\ lastSweep = NoSweep /\ nSweeps = 0

ClientIdle == PingsIdle /\ SweepIdle /\ UtilIdle

MsgIdle ==
  /\ partials = {} /\ messages = [m \in {} |-> Absent] /\ ret = Absent
  /\ lastCall = NoCall /\ nCalls = 0

\* the parts a specification leaves alone
CollectorIdle ==
  /\ options = Opt(0, 0) /\ collected = EmptyMap /\ ended = FALSE
  /\ _timeout = Null /\ _idletimeout = Null /\ _timeouts = {}
  /\ timers = {} /\ nextTimer = 1 /\ now = 0 /\ emitted = <<>>
  /\ cleanups = 0 /\ nHandled = 0 /\ lastCollect = 0
  /\ triggered = FALSE /\ firstReason = NoReason
  /\ stopCalled = FALSE /\ destroyed = FALSE
  /\ lastOp = [op |-> "new", wasEnded |-> FALSE]
  /\ next = NoPromise /\ listeners = {} /\ userFirst = TRUE
  /\ nextRequest = [at |-> 0, active |-> FALSE]
  /\ _intervals = {} /\ intervals = {} /\ destroyedAt = 0 /\ lateRuns = {}
  /\ tracked = NoneTracked

EmojiIdle ==
  /\ guild = "uncached" /\ emojis = <<>> /\ dispatched = <<>>
  /\ lastPayload = NoPayload /\ repeat = "no"

\* the Collector with its client's timers
Init == CollectorInit /\ EmojiIdle /\ MsgIdle /\ ClientIdle

Next == CollectorNext

Spec == Init /\ [][Next]_vars

\* the Collector with a promise of Collector.next
NextOptionSets == {Opt(0, 0), Opt(2, 0), Opt(0, 2)}

InitNext == Init /\ options \in NextOptionSets

NextNext ==
  \/ CollectorNext
  \/ \E first \in BOOLEAN : RequestNext(first)

SpecNext == InitNext /\ [][NextNext]_vars

\* the Collector with a time option, under a runtime whose clock advances
\* and whose event loop runs every timer that is due
TimedOptionSets == {o \in OptionSets : o.time # 0}

InitLive == Init /\ options \in TimedOptionSets

NextLive == CollectorNext

Runtime ==
  /\ WF_vars(Tick)
  /\ WF_vars(\E t \in timers : TimerFires(t))

SpecLive == InitLive /\ [][NextLive]_vars /\ Runtime

\* a Collector constructed with a negative duration
InitInvalid ==
  /\ options \in InvalidOptionSets
  /\ CollectorConstructed
  /\ EmojiIdle /\ MsgIdle /\ ClientIdle

NextInvalid == CollectorNext

SpecInvalid == InitInvalid /\ [][NextInvalid]_vars

\* a Client or WebhookClient with the timeouts and intervals of user code
InitTimers == CollectorIdle /\ EmojiIdle /\ MsgIdle /\ ClientIdle

NextTimers == TimersNext

SpecTimers == InitTimers /\ [][NextTimers]_vars

\* the emoji list synchronisation
InitEmoji == EmojiInit /\ CollectorIdle /\ MsgIdle /\ ClientIdle

NextEmoji == EmojiNext

SpecEmoji == InitEmoji /\ [][NextEmoji]_vars

\* the emoji list synchronisation with entries that lack their id
NextEmojiRaw == EmojiRawNext

SpecEmojiRaw == InitEmoji /\ [][NextEmojiRaw]_vars

\* the message resolution of the actions
InitMsg == MsgInit /\ CollectorIdle /\ EmojiIdle /\ ClientIdle

NextMsg == MsgNext

SpecMsg == InitMsg /\ [][NextMsg]_vars

\* getPayload called for any entity class
InitPayload == PayloadInit /\ CollectorIdle /\ EmojiIdle /\ ClientIdle

NextPayload == PayloadNext

SpecPayload == InitPayload /\ [][NextPayload]_vars

\* the latencies of the gateway heartbeat
InitPings ==
  /\ PingsInit /\ SweepIdle /\ UtilIdle
  /\ CollectorIdle /\ EmojiIdle /\ MsgIdle

NextPings == PingsNext

SpecPings == InitPings /\ [][NextPings]_vars

\* the sweep of the message caches
InitSweep ==
  /\ SweepInit /\ PingsIdle /\ UtilIdle
  /\ CollectorIdle /\ EmojiIdle /\ MsgIdle

NextSweep == SweepNext

SpecSweep == InitSweep /\ [][NextSweep]_vars

\* the typing indicator of the client user
InitTyping ==
  /\ TypingInit /\ StructIdle /\ PingsIdle /\ SweepIdle
  /\ CollectorIdle /\ EmojiIdle /\ MsgIdle

NextTyping == TypingNext

SpecTyping == InitTyping /\ [][NextTyping]_vars

\* the clients and caches while a structure of a message is exercised
RestIdle ==
  /\ TypingIdle /\ PingsIdle /\ SweepIdle
  /\ CollectorIdle /\ EmojiIdle /\ MsgIdle

\* the reactions of one message
InitReactions == ReactionInit /\ BitIdle /\ PatchIdle /\ RestIdle

NextReactions == ReactionNext

SpecReactions == InitReactions /\ [][NextReactions]_vars

\* BitField instances in the hands of user code
InitBitField == BitInit /\ ReactionIdle /\ PatchIdle /\ RestIdle

NextBitField == BitNext

SpecBitField == InitBitField /\ [][NextBitField]_vars

\* the updates of one message
InitPatch == PatchInit /\ ReactionIdle /\ BitIdle /\ RestIdle

NextPatch == PatchNext

SpecPatch == InitPatch /\ [][NextPatch]_vars

\* ------------------------------------------------ Collector: the claims

Names(seq) == [i \in DOMAIN seq |-> seq[i].name]
Count(seq, name) == Cardinality({i \in DOMAIN seq : seq[i].name = name})
EndCount == Count(emitted, "end")
\* what a step appended to the notifications
NewlyEmitted == SubSeq(emitted', Len(emitted) + 1, Len(emitted'))
\* the 'end' notification, once there is one
TheEnd == emitted[CHOOSE i \in DOMAIN emitted : emitted[i].name = "end"]
CollectorFields ==
  <<collected, ended, _timeout, _idletimeout, _timeouts, timers, emitted,
    cleanups>>
StopReasons == {Undefined, "manual"}
\* handle() returned nothing for the event, or the filter rejects it
Rejected(ev) == ~ev.handled \/ ~filter(ev, collected)

\* C1: whatever stop() calls, timer firings and postCheck reasons occur, and
\* in whatever order, 'end' is emitted at most once, and it has been emitted
\* exactly once as soon as one of those triggers has occurred (and not
\* before); the Collector is ended exactly then.
C1_EndExactlyOnce ==
  /\ EndCount <= 1
  /\ triggered <=> EndCount = 1
  /\ ended <=> EndCount = 1

\* a second trigger (a stop() call) after the time timer ended the Collector
C1_Witness ==
  /\ lastOp.op = "stop"
  /\ lastOp.wasEnded
  /\ EndCount = 1
  /\ TheEnd.reason = "time"

\* C4: stop() on a Collector whose ended flag is set changes none of
\* collected, ended, _timeout, _idletimeout, the client's timers, and neither
\* runs cleanup() nor emits a notification.
C4_StopWhenEndedNoOp ==
  [][\A reason \in StopReasons :
       (ended /\ Stop(reason)) => UNCHANGED CollectorFields]_vars

\* stop() has been called on an ended Collector, whose single cleanup() and
\* 'end' date from the first termination
C4_Witness ==
  /\ lastOp.op = "stop"
  /\ lastOp.wasEnded
  /\ cleanups = 1

\* C5: once the Collector has ended, no step changes collected or emits a
\* 'collect' notification.
C5_NoCollectAfterEnd ==
  [][ended => /\ collected' = collected
              /\ Count(emitted', "collect") = Count(emitted, "collect")]_vars

\* C6: an event that handle() turns into {key, value} and the filter accepts
\* leaves collected mapping key to value, every other key as it was, and
\* emits exactly one 'collect', carrying value.
C6_CollectInsertsAndNotifies ==
  [][\A ev \in Events, ls \in BOOLEAN :
       (Handle(ev, ls) /\ Collects(ev)) =>
         /\ DOMAIN collected' = DOMAIN collected \cup {ev.key}
         /\ collected'[ev.key] = ev.value
         /\ \A k \in DOMAIN collected \ {ev.key} : collected'[k] = collected[k]
         /\ Count(NewlyEmitted, "collect") = 1
         /\ NewlyEmitted[1].name = "collect"
         /\ NewlyEmitted[1].value = ev.value]_vars

\* a later collection overwrote the value k1 had
C6_Witness ==
  /\ "k1" \in DOMAIN collected
  /\ \E i, j \in DOMAIN emitted :
       /\ i < j
       /\ emitted[i].name = "collect" /\ emitted[j].name = "collect"
       /\ "k1" \in DOMAIN emitted[i].collected
       /\ emitted[i].collected["k1"] # collected["k1"]
       /\ emitted[j].value = collected["k1"]

\* C7 as stated: on an active Collector an event that handle() drops or the
\* filter rejects changes nothing and emits nothing.
C7_RejectedEventNoOp ==
  [][\A ev \in Events, ls \in BOOLEAN :
       (Handle(ev, ls) /\ ~ended /\ Rejected(ev)) =>
         UNCHANGED CollectorFields]_vars

\* C7 amended: ... provided postCheck returns no reason for the event;
\* postCheck runs for every event, and when it returns a reason the rejected
\* event ends the Collector with that reason and collects nothing.
C7_RejectedEventNoOpUnlessPostCheck ==
  [][\A ev \in Events, ls \in BOOLEAN :
       (Handle(ev, ls) /\ ~ended /\ Rejected(ev)) =>
         /\ ev.post = NoReason => UNCHANGED CollectorFields
         /\ ev.post # NoReason =>
              /\ collected' = collected
              /\ ended'
              /\ Names(NewlyEmitted) = <<"end">>
              /\ NewlyEmitted[1].reason = ev.post]_vars

\* events were delivered to an active Collector and left no trace
C7_Witness ==
  /\ lastOp.op = "_handle"
  /\ nHandled = MaxEvents
  /\ ~ended
  /\ emitted = <<>>
  /\ collected = EmptyMap

\* C8 as stated: a successful collection on an active Collector for which
\* postCheck returns a reason ends the Collector in the same call with that
\* reason, the 'end' carrying the item just collected.
C8_PostCheckEnds ==
  [][\A ev \in Events, ls \in BOOLEAN :
       (Handle(ev, ls) /\ ~ended /\ Collects(ev) /\ ev.post # NoReason) =>
         /\ ended'
         /\ Count(NewlyEmitted, "end") = 1
         /\ \A i \in DOMAIN NewlyEmitted :
              NewlyEmitted[i].name = "end" =>
                /\ NewlyEmitted[i].reason = ev.post
                /\ ev.key \in DOMAIN NewlyEmitted[i].collected
                /\ NewlyEmitted[i].collected[ev.key] = ev.value]_vars

\* C8 amended: ... provided the Collector is still active when postCheck
\* returns, that is no 'collect' listener has called stop() during the call
\* (then the Collector has ended with that earlier reason, also carrying the
\* item).
C8_PostCheckEndsIfStillActive ==
  [][\A ev \in Events, ls \in BOOLEAN :
       (Handle(ev, ls) /\ ~ended /\ Collects(ev) /\ ev.post # NoReason) =>
         /\ ended'
         /\ Count(NewlyEmitted, "end") = 1
         /\ \A i \in DOMAIN NewlyEmitted :
              NewlyEmitted[i].name = "end" =>
                /\ NewlyEmitted[i].reason = (IF ls THEN "user" ELSE ev.post)
                /\ ev.key \in DOMAIN NewlyEmitted[i].collected
                /\ NewlyEmitted[i].collected[ev.key] = ev.value]_vars

\* the Collector ended on a postCheck reason right after a collection
C8_Witness ==
  /\ lastOp.op = "_handle"
  /\ ~lastOp.wasEnded
  /\ ended
  /\ Len(emitted) >= 3
  /\ emitted[Len(emitted)].name = "end"
  /\ emitted[Len(emitted)].reason = "limit"
  /\ emitted[Len(emitted) - 1].name = "fullCollect"
  /\ emitted[Len(emitted)].collected = collected

\* the pending idle timer: armed at the last collection for the full idle
IdleTimerArmed ==
  \E t \in timers :
    /\ t.id = _idletimeout
    /\ t.reason = "idle"
    /\ t.due = lastCollect + options.idle

\* an active Collector with an idle duration is never more than that
\* duration past its most recent collection
C9_IdleDeadline(cond) ==
  (options.idle # 0 /\ ~ended /\ cond) => now - lastCollect <= options.idle

\* every collection on an active Collector replaces the idle timer by a new
\* one for the full duration, and an 'idle' end comes no earlier than that
C9_IdleReset ==
  /\ \A ev \in Events, ls \in BOOLEAN :
       (Handle(ev, ls) /\ Collects(ev) /\ ~ended /\ ~ended'
        /\ options.idle # 0) =>
         /\ _idletimeout' # _idletimeout
         /\ \A t \in timers' : t.id # _idletimeout
         /\ _idletimeout \notin _timeouts'
         /\ \E t \in timers' : /\ t.id = _idletimeout'
                               /\ t.reason = "idle"
                               /\ t.due = now + options.idle
  /\ (~ended /\ ended' /\ NewlyEmitted[1].reason = "idle") =>
       now - lastCollect >= options.idle

\* C9 as stated: with an idle duration D every collection re-arms the idle
\* timer for the full D, the Collector never ends with 'idle' less than D
\* after its most recent collection, and while it is active no more than D
\* has passed since then (the idle timer ends it at D).
C9_IdleTimer == [][C9_IdleReset]_vars /\ []C9_IdleDeadline(TRUE)

\* C9 amended: ... and, on a client on which destroy() has not been called,
\* no more than D has passed since the most recent collection while the
\* Collector is active.
C9_IdleTimerUnlessDestroyed ==
  /\ [][C9_IdleReset]_vars
  /\ []C9_IdleDeadline(~destroyed)
  /\ []((options.idle # 0 /\ ~ended /\ ~destroyed) => IdleTimerArmed)

\* idle 2: a collection at instant 1 moved the end from instant 2 to 3
C9_Witness ==
  /\ options = Opt(0, 2)
  /\ lastCollect = 1
  /\ now = 3
  /\ ended
  /\ lastOp.op = "timer"
  /\ TheEnd.reason = "idle"
  /\ TheEnd.collected # EmptyMap

\* no event was delivered and stop() was not called
Undisturbed == nHandled = 0 /\ ~stopCalled

\* the time timer decides: no idle timer is due first
C10_TimeDecides(cond) ==
  (options.time # 0 /\ Undisturbed /\ cond) =>
    /\ ~ended => now <= options.time
    /\ ended => /\ Names(emitted) = <<"end">>
                /\ TheEnd.reason = "time"
                /\ TheEnd.collected = EmptyMap

C10_EndsAtTime(cond) ==
  (options.time # 0 /\ Undisturbed' /\ cond /\ ~ended /\ ended') =>
    now = options.time

\* C10 as stated: a Collector with time T > 0 that gets no event and no
\* stop() call is active until T, ends at T, with reason 'time' and an
\* empty accumulation.
C10_TimeExpiry ==
  []C10_TimeDecides(TRUE) /\ [][C10_EndsAtTime(TRUE)]_vars

\* C10 amended: ... provided no idle duration of T or less is configured
\* and destroy() has not been called on the client.
C10_TimeExpiryWithoutIdleFirst ==
  /\ []C10_TimeDecides(~destroyed /\ options.idle \notin 1..options.time)
  /\ [][C10_EndsAtTime(~destroyed /\ options.idle \notin 1..options.time)]_vars

\* time 1 with idle 2: ended by the time timer at instant 1, nothing collected
C10_Witness ==
  /\ options = Opt(1, 2)
  /\ Undisturbed
  /\ ended
  /\ lastOp.op = "timer"
  /\ TheEnd.reason = "time"
  /\ timers = {}

\* C11: in every state in which the Collector is ended, _timeout and
\* _idletimeout are null, the client's _timeouts holds no handle and the
\* runtime no pending timer of the Collector, and no timer callback has run
\* on a Collector that was ended already.
C11_EndedCancelsTimers ==
  /\ ended => /\ _timeout = Null
              /\ _idletimeout = Null
              /\ _timeouts = {}
              /\ timers = {}
  /\ lastOp.op = "timer" => ~lastOp.wasEnded

\* time 2 and idle 1: the idle timer fired at instant 1 and ended the
\* Collector, and instant 2 went by without the time timer
C11_Witness ==
  /\ options = Opt(2, 1)
  /\ ended
  /\ TheEnd.reason = "idle"
  /\ now = 3
  /\ nextTimer = 3

\* C12: the 'end' notification carries the reason of the first terminating
\* trigger ('user' for stop() without argument, the argument otherwise,
\* 'time' and 'idle' for the two timers, the reason postCheck returned);
\* a later trigger neither changes it nor adds another 'end'.
C12_FirstTriggerDecidesReason ==
  /\ triggered => /\ EndCount = 1
                  /\ TheEnd.reason = firstReason
  /\ ~triggered => firstReason = NoReason /\ EndCount = 0

\* ended by postCheck's 'limit'; a later stop() left the 'end' as it was
C12_Witness ==
  /\ lastOp.op = "stop"
  /\ lastOp.wasEnded
  /\ firstReason = "limit"
  /\ stopCalled
  /\ TheEnd.reason = "limit"

\* C14: when a 'collect' listener calls stop() during _handle, the call
\* emits 'end' exactly once, runs cleanup() exactly once and returns with the
\* Collector ended and none of its timers scheduled; and whenever the
\* Collector ends, with an 'end' listener calling stop() again, there is
\* one 'end' and one cleanup().
C14_StopFromListener ==
  [][/\ \A ev \in Events :
          (Handle(ev, TRUE) /\ ~ended /\ Collects(ev)) =>
            /\ ended'
            /\ Count(NewlyEmitted, "end") = 1
            /\ cleanups' = cleanups + 1
            /\ _timeout' = Null /\ _idletimeout' = Null
            /\ timers' = {} /\ _timeouts' = {}
     /\ (~ended /\ ended') =>
          /\ Count(NewlyEmitted, "end") = 1
          /\ cleanups' = cleanups + 1]_vars

\* with time 2 and idle 2 running, a 'collect' listener stopped the
\* Collector in the middle of the call that collected k1
C14_Witness ==
  /\ options = Opt(2, 2)
  /\ lastOp.op = "_handle"
  /\ ~lastOp.wasEnded
  /\ ended
  /\ firstReason = "user"
  /\ Names(emitted) = <<"collect", "end", "fullCollect">>
  /\ cleanups = 1
  /\ timers = {}

\* the 'collect' and 'end' notifications emitted since Collector.next was
\* read, by their position
SinceRequest ==
  {i \in DOMAIN emitted :
     i > nextRequest.at /\ emitted[i].name \in {"collect", "end"}}
FirstSince == CHOOSE i \in SinceRequest : \A j \in SinceRequest : i <= j
\* 'end' was emitted while the first 'collect' was being delivered
EndedDuringCollect ==
  /\ FirstSince + 1 \in DOMAIN emitted
  /\ emitted[FirstSince + 1].name = "end"

\* a settled promise stays as it is
NextSettlesOnce ==
  [][next.state \in {"resolved", "rejected"} => next' = next]_vars

\* what the promise is after the first 'collect' since the request
NextAfter(resolves) ==
  (nextRequest.active /\ SinceRequest # {}) =>
    /\ listeners = {}
    /\ (emitted[FirstSince].name = "collect" /\ resolves) =>
         next = Promise("resolved", emitted[FirstSince].value, EmptyMap)
    /\ emitted[FirstSince].name = "end" =>
         next = Promise("rejected", "", emitted[FirstSince].collected)

\* nothing was emitted since the request: pending, both listeners attached
NextPending ==
  (nextRequest.active /\ SinceRequest = {}) =>
    next.state = "pending" /\ listeners = {"collect", "end"}

\* C13 as stated: a promise read from Collector.next on an active Collector
\* settles once; it is resolved with the value of the first 'collect'
\* emitted since if that comes before 'end', otherwise rejected with the
\* accumulation 'end' carries; once settled, neither of its two listeners
\* is attached.
C13_NextPromise ==
  NextSettlesOnce /\ []NextPending /\ []NextAfter(TRUE)

\* what the code does: as C13 states, unless a 'collect' listener added
\* before the promise was requested calls stop() while the first 'collect'
\* is delivered; then 'end' reaches the promise first and it is rejected
\* with the accumulation, which holds the item.
NextPromiseUnlessStoppedAhead ==
  /\ NextSettlesOnce
  /\ []NextPending
  /\ []NextAfter(~(userFirst /\ EndedDuringCollect))
  /\ [](( /\ nextRequest.active /\ SinceRequest # {}
          /\ emitted[FirstSince].name = "collect"
          /\ userFirst /\ EndedDuringCollect) =>
           next = Promise("rejected", "", emitted[FirstSince + 1].collected))

\* read after a first collection, the promise was resolved with the value
\* of the second, and the Collector was stopped afterwards
NextResolvedThenStopped ==
  /\ nextRequest.active
  /\ nextRequest.at = 2
  /\ next = Promise("resolved", "v2", EmptyMap)
  /\ listeners = {}
  /\ ended
  /\ lastOp.op = "stop"

\* ---------------------------------------- GuildEmojisUpdate: the claims

DispatchedIds(log, kind) == {log[i].id : i \in {j \in DOMAIN log : log[j].kind = kind}}
E(id, name) == [id |-> id, name |-> name]

\* C2: on a cached guild with cached ids B and a payload of pairwise
\* distinct ids A, the deleted ids are B \ A, the created ids are A \ B, the
\* updated ids are those of both whose payload differs from the cached
\* emoji, and every id is dispatched at most once.
C2_Partition ==
  [][LET data == lastPayload'
     IN (guild = "cached" /\ DistinctIds(data) /\ GuildEmojisUpdate(data)) =>
          /\ DispatchedIds(dispatched', "delete") = Ids(emojis) \ Ids(data)
          /\ DispatchedIds(dispatched', "create") = Ids(data) \ Ids(emojis)
          /\ DispatchedIds(dispatched', "update") =
               {id \in Ids(data) \cap Ids(emojis) :
                  Get(data, id) # Get(emojis, id)}
          /\ DistinctIds(dispatched')]_vars

\* the cache held e1 and e2, the payload lists e1 unchanged and e3:
\* create(e3), delete(e2), nothing for e1
C2_Witness ==
  /\ guild = "cached"
  /\ lastPayload = <<E("e1", "n1"), E("e3", "n1")>>
  /\ dispatched = <<Dispatch("create", E("e3", "n1")),
                    Dispatch("delete", E("e2", "n2"))>>
  /\ emojis = <<E("e1", "n1"), E("e3", "n1")>>

\* no id is listed with two different versions
SameVersions(data) ==
  \A i, j \in DOMAIN data : data[i].id = data[j].id => data[i] = data[j]

\* C15 as stated: handling the payload the action before handled, on the
\* same cached guild, dispatches nothing, for every payload, lists in which
\* an id occurs more than once included.
C15_SecondApplicationSilent ==
  [][(guild = "cached" /\ GuildEmojisUpdate(lastPayload)) =>
       dispatched' = <<>>]_vars

\* C15 amended: ... for every payload in which no id occurs with two
\* different versions (an id that is listed twice with the same version
\* included).
C15_SecondApplicationSilentSameVersions ==
  [][(guild = "cached" /\ SameVersions(lastPayload)
      /\ GuildEmojisUpdate(lastPayload)) => dispatched' = <<>>]_vars

\* e3 was listed twice with one version and e1 renamed; the first action
\* dispatched, the second one of the same payload nothing
C15_Witness ==
  /\ guild = "cached"
  /\ repeat = "changed"
  /\ lastPayload = <<E("e3", "n2"), E("e3", "n2")>>
  /\ emojis = <<E("e3", "n2")>>
  /\ dispatched = <<>>

\* C16: an id that is in the cache when the action starts and in the
\* payload is never dispatched as deleted, wherever the payload lists it
\* and whatever the pass creates and updates; the deleted ids are those of
\* the cache at the start that the payload does not list.
C16_DeletionsFromSnapshot ==
  [][(guild = "cached" /\ GuildEmojisUpdate(lastPayload')) =>
       /\ DispatchedIds(dispatched', "delete") \cap Ids(lastPayload') = {}
       /\ DispatchedIds(dispatched', "delete") =
            Ids(emojis) \ Ids(lastPayload')]_vars

\* the payload lists a new e3 ahead of the cached e2, renamed; e1 is not
\* listed: create(e3), update(e2), delete(e1)
C16_Witness ==
  /\ guild = "cached"
  /\ lastPayload = <<E("e3", "n1"), E("e2", "n2")>>
  /\ dispatched = <<Dispatch("create", E("e3", "n1")),
                    Dispatch("update", E("e2", "n2")),
                    Dispatch("delete", E("e1", "n1"))>>
  /\ emojis = <<E("e2", "n2"), E("e3", "n1")>>

\* a is b with some elements left out
RECURSIVE IsSubSeq(_, _)
IsSubSeq(a, b) ==
  IF a = <<>> THEN TRUE
  ELSE IF b = <<>> THEN FALSE
  ELSE IF Head(a) = Head(b) THEN IsSubSeq(Tail(a), Tail(b))
  ELSE IsSubSeq(a, Tail(b))

\* the emojis the log dispatched with one of the kinds, in log order
DispatchedEmojis(log, kinds) ==
  LET sel == SelectSeq(log, LAMBDA d : d.kind \in kinds)
  IN [i \in DOMAIN sel |-> E(sel[i].id, sel[i].name)]

\* no delete is dispatched before a create or an update
DeletesLast(log) ==
  \A i, j \in DOMAIN log :
    (i < j /\ log[i].kind = "delete") => log[j].kind = "delete"

\* C17 as stated: within one action the dispatches come in the order
\* updates, creates, deletes: no create before an update and no delete
\* before a create or an update.
C17_UpdatesCreatesDeletes ==
  [][(guild = "cached" /\ GuildEmojisUpdate(lastPayload')) =>
       /\ \A i, j \in DOMAIN dispatched' :
            (i < j /\ dispatched'[i].kind = "create") =>
              dispatched'[j].kind # "update"
       /\ DeletesLast(dispatched')]_vars

\* C17 amended: within one action the creates and updates are dispatched
\* in the order in which the payload lists the emojis, a create before an
\* update when the payload lists the new emoji first, and every delete is
\* dispatched after all creates and updates, in the order of the cache.
C17_PayloadOrderThenDeletes ==
  [][(guild = "cached" /\ GuildEmojisUpdate(lastPayload')) =>
       /\ IsSubSeq(DispatchedEmojis(dispatched', {"create", "update"}),
                   lastPayload')
       /\ DeletesLast(dispatched')
       /\ IsSubSeq(DispatchedEmojis(dispatched', {"delete"}), emojis)]_vars

\* the payload lists a new e2 ahead of the renamed e1 and drops e3:
\* create(e2), update(e1), delete(e3)
C17_Witness ==
  /\ guild = "cached"
  /\ lastPayload = <<E("e2", "n1"), E("e1", "n2")>>
  /\ dispatched = <<Dispatch("create", E("e2", "n1")),
                    Dispatch("update", E("e1", "n2")),
                    Dispatch("delete", E("e3", "n1"))>>
  /\ emojis = <<E("e1", "n2"), E("e2", "n1")>>

\* the cached state of the id is not what it was before the step
Changed(id) ==
  \/ Has(emojis, id) # Has(emojis', id)
  \/ Has(emojis, id) /\ Has(emojis', id) /\ Get(emojis, id) # Get(emojis', id)

\* one dispatch for each id whose cached state changes, none for the others
OnePerChangedId ==
  /\ DistinctIds(dispatched')
  /\ Ids(dispatched') = {id \in EmojiIds : Changed(id)}
  /\ \A i \in DOMAIN lastPayload' :
       (Has(emojis, lastPayload'[i].id)
        /\ Get(emojis, lastPayload'[i].id) = lastPayload'[i]) =>
         lastPayload'[i].id \notin Ids(dispatched')

\* C18 as stated: one action dispatches at most one create, update or
\* delete per id, for any payload, also one that lists an id more than
\* once: exactly one for each id whose cached state changes, none for an
\* id whose payload equals its cached state.
C18_OneDispatchPerId ==
  [][(guild = "cached" /\ GuildEmojisUpdate(lastPayload')) =>
       OnePerChangedId]_vars

\* C18 amended: ... for any payload in which no id is listed with two
\* different versions (an id listed more than once with the same version
\* included).
C18_OneDispatchPerIdSameVersions ==
  [][(guild = "cached" /\ SameVersions(lastPayload')
      /\ GuildEmojisUpdate(lastPayload')) => OnePerChangedId]_vars

\* e2 was cached as n1 and is listed twice as n2: one update(e2)
C18_Witness ==
  /\ guild = "cached"
  /\ lastPayload = <<E("e2", "n2"), E("e2", "n2")>>
  /\ dispatched = <<Dispatch("update", E("e2", "n2"))>>
  /\ emojis = <<E("e2", "n2")>>

\* C19: for a guild that is not cached, or cached without an emoji store,
\* the action returns at once: the emoji cache and the guild are what they
\* were and no create, update or delete is dispatched, whatever the payload.
C19_UnknownGuildNoOp ==
  [][(guild # "cached" /\ GuildEmojisUpdate(lastPayload')) =>
       /\ emojis' = emojis
       /\ guild' = guild
       /\ dispatched' = <<>>]_vars

\* a payload with two new emojis was handled for a guild without emoji store
C19_Witness ==
  /\ guild = "noEmojis"
  /\ lastPayload = <<E("e1", "n1"), E("e2", "n2")>>
  /\ emojis = <<>>
  /\ dispatched = <<>>

\* the entries of the payload that carry an id
WithId(data) == SelectSeq(data, LAMBDA e : e.id # NoId)

\* C20: a payload entry without id is skipped: nothing is dispatched for it
\* and the cache gains no entry for it, and the other entries are
\* reconciled as if the payload held only them.
C20_EntryWithoutIdSkipped ==
  [][(guild = "cached" /\ GuildEmojisUpdate(lastPayload')) =>
       /\ NoId \notin Ids(dispatched')
       /\ NoId \notin Ids(emojis')
       /\ dispatched' = handle(guild, emojis, WithId(lastPayload')).log
       /\ emojis' = handle(guild, emojis, WithId(lastPayload')).emojis]_vars

\* --------------------------------- getPayload / getMessage: the claims

\* the message id the event refers to: data.message_id || data.id
Referred(data) == OrId(data.message_id, data.id)

\* the result is a stub built by this call, with the referred id, and it
\* is what the store holds for that id when cache is true
StubBuilt(data, cache) ==
  /\ ret'.id = Referred(data)
  /\ partial(ret')
  /\ ret'.oid = nCalls'
  /\ cache => /\ Referred(data) \in DOMAIN messages'
              /\ messages'[Referred(data)] = ret'
  /\ \A m \in DOMAIN messages : m \in DOMAIN messages' /\ messages'[m] = messages[m]
  /\ DOMAIN messages' \subseteq DOMAIN messages \cup {Referred(data)}

C22_NoPartialNoStub ==
  [][\A data \in MessageData, cache \in BOOLEAN :
       (GetMessage(data, cache) /\ Referred(data) \notin DOMAIN messages
        /\ "MESSAGE" \notin partials) =>
         /\ ret' = data.message
         /\ data.message = Absent => ret' = Absent
         /\ messages' = messages]_vars

\* partials are not allowed: a caching call for the uncached m2, without
\* event message, returned nothing and m2 is still not cached
C22_Witness ==
  /\ partials = {}
  /\ lastCall.data.message = Absent
  /\ lastCall.data.message_id = "m2"
  /\ lastCall.cache
  /\ ~lastCall.cached
  /\ ret = Absent
  /\ "m2" \notin DOMAIN messages

\* C23: getPayload for an id that is not in the store, with the partial
\* type of the class allowed, returns a newly built stub of that class with
\* that id, for every class; the store maps the id to it when cache is
\* true, and no key of the store maps to an absent value afterwards.
C23_StubForEveryClass ==
  [][\A cls \in Classes, id \in MsgIds, cache \in BOOLEAN :
       (GetPayload(cls, id, cache) /\ id \notin DOMAIN messages
        /\ PartialTypeOf(cls) \in partials) =>
         /\ ret' # Absent
         /\ ret'.id = id
         /\ ret'.oid = nCalls'
         /\ cache => id \in DOMAIN messages' /\ messages'[id] = ret'
         /\ \A k \in DOMAIN messages' : messages'[k] # Absent]_vars

\* C24: once destroy() has been called, no callback of a timeout or
\* interval that was scheduled before the call runs, the pending timers of
\* the runtime and the handles in _timeouts and _intervals are all from
\* after the call, and both sets are empty when destroy() returns.
C24_DestroyCancelsAll ==
  /\ lateRuns = {}
  /\ destroyed =>
       /\ \A h \in _timeouts \cup _intervals : h >= destroyedAt
       /\ \A t \in timers \cup intervals : t.id >= destroyedAt
  /\ lastOp.op = "destroy" =>
       /\ _timeouts = {} /\ _intervals = {}
       /\ timers = {} /\ intervals = {}

\* a timeout and an interval were pending when destroy() was called, and
\* the clock reached the end with neither of them run
C24_Witness ==
  /\ destroyed
  /\ destroyedAt = 3
  /\ now = MaxTime
  /\ lateRuns = {}
  /\ lastOp = [op |-> "destroy", wasEnded |-> FALSE]
  /\ nextTimer = 3

\* C25: a Collector constructed with a non-positive duration option is
\* rejected at construction time: when the constructor is done no timer has
\* been scheduled for it.
C25_InvalidOptionsRejected ==
  (lastOp.op = "new" /\ (options.time < 0 \/ options.idle < 0)) =>
    /\ timers = {}
    /\ _timeouts = {}
    /\ _timeout = Null
    /\ _idletimeout = Null

\* what the constructor does instead: the negative duration arms a timer
\* which the runtime fires after one millisecond and which ends the Collector
ConstructedWithNegativeTime ==
  /\ options.time < 0
  /\ ended
  /\ firstReason = "time"
  /\ now = 1

\* ------------------------------------------------- Client: the claims

\* the last n elements of a sequence, latest first
RECURSIVE LatestFirst(_, _)
LatestFirst(log, n) ==
  IF n = 0 \/ log = <<>> THEN <<>>
  ELSE <<log[Len(log)]>> \o LatestFirst(SubSeq(log, 1, Len(log) - 1), n - 1)

\* C26: after n calls of _pong, pings holds the min(n, 3) most recent
\* latencies, most recent first: at most three elements, the first of which
\* is the latest latency.
C26_PingsLatestThree ==
  /\ Len(pings) <= 3
  /\ Len(pings) = (IF Len(latencies) < 3 THEN Len(latencies) ELSE 3)
  /\ pings = LatestFirst(latencies, 3)
  /\ latencies # <<>> => pings[1] = latencies[Len(latencies)]

\* four heartbeats with different latencies were acknowledged: the oldest
\* latency is gone
C26_Witness ==
  /\ latencies = <<10, 20, 30, 20>>
  /\ pings = <<20, 30, 20>>

\* the timestamp a message's age counts from
EditedOrCreated(m) ==
  IF m.editedTimestamp = Null THEN m.createdTimestamp ELSE m.editedTimestamp

\* the messages of a cache that are more than l seconds old at the instant at
OlderThan(cache, l, at) ==
  {k \in DOMAIN cache : at - EditedOrCreated(cache[k]) > l * 1000}

RECURSIVE OlderInAll(_, _, _, _)
OlderInAll(chs, ids, l, at) ==
  IF ids = {} THEN 0
  ELSE LET c == CHOOSE c \in ids : TRUE
       IN Cardinality(OlderThan(chs[c].messages, l, at))
          + OlderInAll(chs, ids \ {c}, l, at)

\* the last call swept with the positive lifetime l
SweptExactly(l) ==
  LET before == lastSweep.before
      at == lastSweep.at
  IN /\ \A c \in ChannelIds :
          /\ channels[c].hasMessages = before[c].hasMessages
          /\ DOMAIN channels[c].messages =
               DOMAIN before[c].messages \ OlderThan(before[c].messages, l, at)
          /\ \A k \in DOMAIN channels[c].messages :
               channels[c].messages[k] = before[c].messages[k]
     /\ sweepRet = OlderInAll(before, ChannelIds, l, at)

\* C27: sweepMessages with a positive lifetime L (given, or taken from the
\* option when the argument is omitted) removes from every channel's message
\* cache exactly the messages whose edited timestamp, or created timestamp
\* when never edited, is more than L seconds before now, keeps every other
\* message, and returns the number of messages removed.
C27_SweepRemovesExactlyTheOld ==
  nSweeps > 0 =>
    /\ (~lastSweep.lifetime.omitted /\ lastSweep.lifetime.value > 0) =>
         SweptExactly(lastSweep.lifetime.value)
    /\ (lastSweep.lifetime.omitted /\ messageCacheLifetime > 0) =>
         SweptExactly(messageCacheLifetime)

\* a sweep with lifetime 1 at 3000 ms of two channels: of c1 it removed m1,
\* created at 1000, and kept m2, created at 1000 and edited at 2500; c2 has
\* no message cache
C27_Witness ==
  /\ nSweeps = 1
  /\ lastSweep.lifetime = [omitted |-> FALSE, value |-> 1]
  /\ lastSweep.at = 3000
  /\ DOMAIN lastSweep.before["c1"].messages = {"m1", "m2"}
  /\ lastSweep.before["c1"].messages["m1"] =
       [createdTimestamp |-> 1000, editedTimestamp |-> Null]
  /\ lastSweep.before["c1"].messages["m2"] =
       [createdTimestamp |-> 1000, editedTimestamp |-> 2500]
  /\ ~channels["c2"].hasMessages
  /\ DOMAIN channels["c1"].messages = {"m2"}
  /\ sweepRet = 1

\* C28: the messageCacheLifetime option is used only when the lifetime
\* argument is omitted, and a call whose resulting lifetime is zero or
\* negative removes no message and returns -1.
C28_OptionOnlyWhenOmitted ==
  nSweeps > 0 =>
    LET l == IF lastSweep.lifetime.omitted
             THEN messageCacheLifetime ELSE lastSweep.lifetime.value
    IN /\ [channels |-> channels, ret |-> sweepRet] =
            sweepMessagesDefaultArgument(lastSweep.before, messageCacheLifetime,
                                         lastSweep.lifetime, lastSweep.at)
       /\ l <= 0 => (sweepRet = -1 /\ channels = lastSweep.before)

\* what the code does: a lifetime argument of 0 is replaced by the option
\* as an omitted one is, and the call is unlimited only if the lifetime that
\* results from that is zero or negative
SweepUnlimitedAfterFallback ==
  nSweeps > 0 =>
    LET l == IF lastSweep.lifetime.omitted \/ lastSweep.lifetime.value = 0
             THEN messageCacheLifetime ELSE lastSweep.lifetime.value
    IN /\ l <= 0 => (sweepRet = -1 /\ channels = lastSweep.before)
       /\ l > 0 => SweptExactly(l)

\* sweepMessages(0) with messageCacheLifetime 1 removed a message
SweepZeroRemoved ==
  /\ nSweeps = 1
  /\ lastSweep.lifetime = [omitted |-> FALSE, value |-> 0]
  /\ messageCacheLifetime = 1
  /\ sweepRet = 1

\* ------------------------------------- Collector: the end of a timed one

\* C29: every Collector created with a time option eventually emits 'end',
\* in every execution, those in which destroy() is called on the owning
\* client before the timer fires included.
C29_TimedCollectorEnds ==
  (options.time # 0) ~> (EndCount = 1)

\* C29, amended: every Collector created with a time option eventually emits
\* 'end' in every execution in which destroy() is not called on the owning
\* client before the Collector has ended.
C29_TimedCollectorEndsUnlessDestroyed ==
  (options.time # 0) ~> (EndCount = 1 \/ destroyed)

\* time 2 and no idle duration: both events were collected and the time
\* timer ended the Collector on a client that was never destroyed
C29_Witness ==
  /\ options = Opt(2, 0)
  /\ ~destroyed
  /\ nHandled = MaxEvents
  /\ now = 2
  /\ lastOp = [op |-> "timer", wasEnded |-> FALSE]
  /\ EndCount = 1
  /\ TheEnd.reason = "time"
  /\ TheEnd.collected # EmptyMap

\* destroy() cancelled the time timer: the clock ran out with the Collector
\* still active and no timer left to end it
DestroyedNeverEnds ==
  /\ options.time # 0
  /\ destroyed
  /\ now = MaxTime
  /\ ~ended
  /\ timers = {}

\* C30: 'end' is the last notification a Collector emits: once 'end' has
\* been emitted, no 'collect' or 'fullCollect' follows it, also when stop()
\* is called from a 'collect' listener of the event being handled.
C30_EndIsLast ==
  \A i \in DOMAIN emitted :
    emitted[i].name = "end" =>
      \A j \in DOMAIN emitted :
        j > i => emitted[j].name \notin {"collect", "fullCollect"}

\* what the code does when a 'collect' listener stops the Collector: the
\* 'fullCollect' of the event being handled follows 'end'
FullCollectAfterEnd ==
  /\ lastOp = [op |-> "_handle", wasEnded |-> FALSE]
  /\ Len(emitted) = 3
  /\ emitted[1].name = "collect"
  /\ emitted[2].name = "end"
  /\ emitted[3].name = "fullCollect"

\* ------------------------------- GuildEmojisUpdate: the cache afterwards

\* the last entry of the payload with the given id
LastEntry(data, id) ==
  data[CHOOSE i \in DOMAIN data :
         /\ data[i].id = id
         /\ \A j \in DOMAIN data : data[j].id = id => j <= i]

\* C31: once a GUILD_EMOJIS_UPDATE has been handled for a cached guild, the
\* guild's emoji cache holds exactly the ids the payload lists, each once and
\* in the state its last payload entry gives.
C31_CacheMirrorsPayload ==
  (guild = "cached" /\ lastPayload # NoPayload) =>
    /\ Ids(emojis) = Ids(lastPayload)
    /\ DistinctIds(emojis)
    /\ \A id \in Ids(lastPayload) : Get(emojis, id) = LastEntry(lastPayload, id)

\* the payload listed the uncached e1 twice, with two names, and left out
\* a cached emoji: e1 was created, then updated, the other one deleted
C31_Witness ==
  /\ guild = "cached"
  /\ lastPayload = <<[id |-> "e1", name |-> "n1"], [id |-> "e1", name |-> "n2"]>>
  /\ emojis = <<[id |-> "e1", name |-> "n2"]>>
  /\ Len(dispatched) = 3
  /\ dispatched[1].kind = "create"
  /\ dispatched[2].kind = "update"
  /\ dispatched[3].kind = "delete"

\* ----------------------------- getPayload / getMessage: cache and patch

\* C32: a getMessage call, and the getPayload call it makes, with cache
\* false leaves the store as it was, whether it returns a stub, a cached
\* message, the event's message or nothing.
C32_NoCacheNoStoreChange ==
  [][\A data \in MessageData :
       GetMessage(data, FALSE) => messages' = messages]_vars

\* a call with cache false for the uncached m1 returned a stub, and m1 is
\* still not in the store
C32_Witness ==
  /\ "MESSAGE" \in partials
  /\ lastCall.data.message = Absent
  /\ lastCall.data.id = "m1"
  /\ ~lastCall.cache
  /\ ~lastCall.cached
  /\ ret = Msg("m1", NullField, NullField, nCalls)
  /\ "m1" \notin DOMAIN messages

\* C33: getPayload for an id that is in the store, called with cache true
\* on an entity that has a patch function (a Message), applies the patch
\* with the raw payload to the cached entity and returns that updated entity.
C33_CachedEntityPatched ==
  [][\A data \in MessageData :
       (GetMessage(data, TRUE) /\ data.message = Absent
        /\ Referred(data) \in DOMAIN messages) =>
         /\ ret' = patch(messages[Referred(data)], [id |-> Referred(data)])
         /\ messages'[Referred(data)] = ret']_vars

\* what the code does: the cached message comes back as it was, with no
\* version added to its edit history
CachedEntityReturnedUnpatched ==
  /\ "MESSAGE" \in partials
  /\ lastCall.data.message = Absent
  /\ lastCall.data.message_id = "m1"
  /\ lastCall.cache
  /\ lastCall.cached
  /\ ret = FullMessage("m1")
  /\ messages["m1"] = FullMessage("m1")

\* ------------------------------------- Client: the registered handles

TimerIds(pending) == {t.id : t \in pending}

IntervalClearedAsTimeout ==
  /\ lastOp.op = "clearTimeout"
  /\ intervals = {}
  /\ _intervals # {}

\* ------------------------------------ Collector: the two pending timers

Pending(reason) == {t \in timers : t.reason = reason}

\* C35: a Collector has at most one pending time timer and at most one
\* pending idle timer; an idle timer is pending only if the idle option was
\* given and the Collector has not ended; and a step that arms a new idle
\* timer has cancelled the one before.
C35_OneTimerOfEachKind ==
  /\ [](/\ Cardinality(Pending("time")) <= 1
        /\ Cardinality(Pending("idle")) <= 1
        /\ Pending("idle") # {} => (options.idle # 0 /\ ~ended))
  /\ [][_idletimeout' \notin {_idletimeout, Null} =>
          /\ \A t \in timers' : t.id # _idletimeout
          /\ _idletimeout \notin _timeouts'
          /\ TimerIds(Pending("idle"))' = {_idletimeout'}]_vars

\* time 2 and idle 2: a collection at instant 1 replaced the idle timer,
\* handle 2, by handle 3, next to the time timer
C35_Witness ==
  /\ options = Opt(2, 2)
  /\ ~ended
  /\ lastCollect = 1
  /\ now = 1
  /\ _timeout = 1
  /\ _idletimeout = 3
  /\ TimerIds(Pending("time")) = {1}
  /\ TimerIds(Pending("idle")) = {3}

\* ------------------------------------------------- typing: the claims

\* a typing interval of the channel is live: registered with the client and
\* repeated by the runtime
LiveTypingInterval(c) ==
  \E h \in typingHist[c].all : h \in _intervals /\ h \in TimerIds(intervals)

\* C36: in every reachable state, those after client.destroy() included, a
\* channel has an entry in the client user's typing map if and only if a
\* live typing interval for that channel is registered in client._intervals.
C36_TypingEntryIffInterval ==
  \A c \in TypingChannels : c \in DOMAIN _typing <=> LiveTypingInterval(c)

\* C36, amended: the same in every state in which destroy() has not been
\* called; destroy() clears the typing intervals and leaves the entries, and
\* a live typing interval always belongs to an entry, whose handle it is.
C36_TypingEntryIffIntervalUnlessDestroyed ==
  \A c \in TypingChannels :
    /\ ~destroyed => (c \in DOMAIN _typing <=> LiveTypingInterval(c))
    /\ LiveTypingInterval(c) =>
         /\ c \in DOMAIN _typing
         /\ _typing[c].interval \in _intervals
         /\ _typing[c].interval \in typingHist[c].all

\* c1 is typing with count 2 and its interval, handle 1, is live; c2 has
\* stopped typing and its interval, handle 2, is gone
C36_Witness ==
  /\ ~destroyed
  /\ DOMAIN _typing = {"c1"}
  /\ _typing["c1"] = [count |-> 2, interval |-> 1]
  /\ _intervals = {1}
  /\ TimerIds(intervals) = {1}
  /\ typingHist["c2"].all = {2}

\* destroy() on a typing client: the entry of c1 is left without interval
TypingEntryAfterDestroy ==
  /\ destroyed
  /\ "c1" \in DOMAIN _typing
  /\ _intervals = {}
  /\ intervals = {}

\* C37: for a channel that is not typing, n startTyping calls without
\* count followed by n stopTyping calls without force leave no typing entry
\* and no typing interval for the channel; before the n-th stopTyping the
\* entry is there with a count of at least 1 (the starts not yet stopped),
\* and one interval was created for the whole sequence.
C37_BalancedTyping ==
  \A c \in TypingChannels :
    LET run == typingHist[c]
    IN run.ok =>
         /\ Cardinality(run.made) = 1
         /\ run.stops < run.starts =>
              /\ c \in DOMAIN _typing
              /\ _typing[c].count >= 1
              /\ _typing[c].count = run.starts - run.stops
              /\ _typing[c].interval \in run.made
         /\ run.stops = run.starts =>
              /\ c \notin DOMAIN _typing
              /\ run.made \cap _intervals = {}
              /\ run.made \cap TimerIds(intervals) = {}
              /\ ~LiveTypingInterval(c)

\* three startTyping calls and three stopTyping calls for c1, none for c2
C37_Witness ==
  /\ typingHist["c1"].ok
  /\ typingHist["c1"].starts = 3
  /\ typingHist["c1"].stops = 3
  /\ typingHist["c1"].made = {1}
  /\ _typing = NoTyping
  /\ nextTimer = 2
  /\ lastOp.op = "stopTyping"

\* ---------------------------------------------- Message: the claims

\* the reaction the last call was about, before the call
HadReacted ==
  /\ lastReact.key \in DOMAIN lastReact.before
  /\ lastReact.user \in lastReact.before[lastReact.key].users

\* C38: starting from a message without reactions, after any sequence of
\* _addReaction and _removeReaction every reaction held in
\* message.reactions counts exactly the distinct users in its users map
\* and at least one; adding a user who has reacted already leaves the
\* count, and removing a user who has not reacted leaves the reactions.
C38_ReactionCountsUsers ==
  /\ \A k \in DOMAIN reactions :
       /\ reactions[k].count = Cardinality(reactions[k].users)
       /\ reactions[k].count >= 1
  /\ (lastReact.op = "_addReaction" /\ HadReacted)
       => /\ lastReact.key \in DOMAIN reactions
          /\ reactions[lastReact.key].count =
               lastReact.before[lastReact.key].count
          /\ reactions[lastReact.key].users =
               lastReact.before[lastReact.key].users
  /\ (lastReact.op = "_removeReaction" /\ lastReact.user # Undefined
        /\ ~HadReacted)
       => reactions = lastReact.before

\* the same user has been added twice to a reaction two users share
C38_Witness ==
  /\ lastReact.op = "_addReaction" /\ HadReacted
  /\ reactions[lastReact.key].count = 2

\* --------------------------------------------- BitField: the claims

\* the last call was add or remove
Combined == lastBit.op \in {"add", "remove"}
\* the instance the last call was made on, before the call
Target == lastBit.before[lastBit.target]
\* the bits add or remove had to produce
Result ==
  IF lastBit.op = "add" THEN Target.bitfield.bits \cup lastBit.total
  ELSE Target.bitfield.bits \ lastBit.total

\* C39: add() and remove() on a frozen BitField leave its bitfield and
\* return a new BitField that holds the result; on a BitField that is not
\* frozen they put the result into its bitfield and return the instance.
C39_FrozenCopiesElseInPlace ==
  Combined =>
    /\ ~bitRet.threw
    /\ IF Target.frozen
       THEN /\ bitRet.instance \notin DOMAIN lastBit.before
            /\ bitRet.instance \in DOMAIN bitfields
            /\ bitfields[bitRet.instance].bitfield.bits = Result
            /\ \A i \in DOMAIN lastBit.before :
                 bitfields[i] = lastBit.before[i]
       ELSE /\ bitRet.instance = lastBit.target
            /\ bitfields[lastBit.target].bitfield.bits = Result
            /\ DOMAIN bitfields = DOMAIN lastBit.before

\* add or remove on a frozen BitField whose result has the sign bit set
\* threw, and no new BitField was made
FrozenSignBitThrows ==
  /\ Combined /\ Target.frozen /\ Int32Sign \in Result
  /\ bitRet.threw /\ bitfields = lastBit.before

\* apart from a result with the sign bit, C39 holds
C39_ExceptSignBit ==
  (Combined /\ ~(Target.frozen /\ Int32Sign \in Result))
    => C39_FrozenCopiesElseInPlace

\* ------------------------------------------ Message.patch: the claims

\* the last patch left the field whose key the data did not have
Kept(key, field) ==
  key \notin lastPatch.keys => patched[field] = lastPatch.before[field]

\* the last patch put the version before it in front of the kept ones
OneMoreEdit ==
  /\ Len(patched._edits) = Len(lastPatch.before._edits) + 1
  /\ Head(patched._edits) = cloneObject(lastPatch.before)
  /\ Tail(patched._edits) = lastPatch.before._edits
  /\ Tail(edits(patched)) = edits(lastPatch.before)

\* C40: Message.patch changes only the fields whose keys the update data
\* has: content, pinned, tts, edited timestamp and flags keep their value
\* when their key is absent; and every call adds exactly one entry, the
\* version before the call, at the front of the edit history.
C40_PatchKeepsAbsentKeys ==
  lastPatch.op = "patch" =>
    /\ Kept("content", "content")
    /\ Kept("pinned", "pinned")
    /\ Kept("tts", "tts")
    /\ Kept("edited_timestamp", "editedTimestamp")
    /\ Kept("flags", "flags")
    /\ OneMoreEdit

\* a patch without the flags key cleared the SUPPRESS_EMBEDS flag
FlagsLostWithoutKey ==
  /\ lastPatch.op = "patch" /\ "flags" \notin lastPatch.keys
  /\ lastPatch.before.flags.bitfield = Number({2})
  /\ patched.flags.bitfield = Number({})

\* apart from the flags, C40 holds
C40_ExceptFlags ==
  lastPatch.op = "patch" =>
    /\ Kept("content", "content")
    /\ Kept("pinned", "pinned")
    /\ Kept("tts", "tts")
    /\ Kept("edited_timestamp", "editedTimestamp")
    /\ OneMoreEdit

====
